---- MODULE Spec2Model ----
(***************************************************************************)
(* MCAT batch-checking engine: WebDriverPool, YouTubeScraper,              *)
(* BatchProcessor and ProcessingController.                                *)
(*                                                                         *)
(* Spec     one run of ProcessingController.start_processing: the GUI      *)
(*          thread (start / pause / resume / cancel), the background       *)
(*          thread in process_csv, and the ThreadPoolExecutor workers.     *)
(* FairSpec Spec with every thread scheduled (liveness).                   *)
(* SpecBatch runs nobody pauses or cancels, over every URL list.            *)
(* SpecSession  such runs in which return_driver's clearing steps may fail. *)
(* SpecTeardown  runs during which the application is closed (cleanup).    *)
(* SpecReturn  SpecTeardown with return_driver taken line by line.         *)
(* SpecCtl  successive start / cancel calls on one ProcessingController,   *)
(*          with every background thread's life cycle.                     *)
(* SpecCoord  the ProcessingCoordinator in front of that controller.       *)
(* SpecMonitor  a run together with its progress monitor thread.           *)
(* SpecClassify  check_url_status applied to every page.                   *)
(* SpecLimiter  the workers' calls of _apply_rate_limit against the clock. *)
(* SpecJoin  update_results and the final stats on every table and every  *)
(*          result list.                                                   *)
(***************************************************************************)
EXTENDS Integers, Sequences, FiniteSets, TLC

\* ---------------------------------------------------------------- bounds
\* config.scraper_settings['max_workers'] is 10; the model takes every value
\* from 1 to MaxWorkers for it
MaxWorkers == 2
\* longest URL list a run is started with
MaxUrls == 2
\* number of start_processing calls followed in SpecCtl
MaxRuns == 2

\* ------------------------------------------------------------- constants
Workers == 1..MaxWorkers
Runs == 1..MaxRuns
NoDriver == 0
NoTask == 0
\* the value process_single_url returns when it gives up a URL
None == "None"
Pending == "pending"

\* statuses check_url_status can produce
Statuses == {"Live", "Removed", "Age-restricted", "Geo-blocked", "Private", "Restricted", "Error"}
\* URLs, named after what their page shows: a playable video, a private
\* video, a page with a warning element, a page whose navigation raises
URLS == {"u_live", "u_private", "u_warning", "u_broken"}
\* what driver.get(url) and the page checks of check_url_status give
PageStatus(u) ==
    CASE u = "u_live" -> "Live"
      [] u = "u_private" -> "Private"
      [] u = "u_warning" -> "Restricted"
      [] OTHER -> "Error"

ZeroStats == [live |-> 0, removed |-> 0, restricted |-> 0, errors |-> 0, skipped |-> 0]
NoSnap == [current |-> 0, total |-> 0, stats |-> ZeroStats]
\* ProcessingResult.__init__; dataframe <<>> is None
NoResult == [success |-> FALSE, processed_count |-> 0, error_message |-> "",
             stats |-> [live |-> 0, removed |-> 0, restricted |-> 0, errors |-> 0],
             dataframe |-> <<>>]

\* platform identifiers a run may be started with; _create_scraper knows "youtube"
Platforms == {"youtube", "tiktok"}
\* the columns of the data frame, and the names column_mapping['post'] may hold:
\* an existing column, a name no column has, and none
DfColumns == {"post"}
Columns == {"post", "absent", ""}
\* the state a page leaves in a session, in the order return_driver clears it
StorageKinds == <<"cookies", "localStorage", "sessionStorage">>

\* the messages process_csv and _process_urls_thread produce
MissingColumns == "Missing columns: post column 'absent'"
UnsupportedPlatform == "Unsupported platform: tiktok"
ColumnNotFound == "URL column '' not found in CSV"
NoUrlsFound == "No URLs found in column 'post'"
Cancelled == "Processing was cancelled"
NoneHasNoCleanup == "Processing error: 'NoneType' object has no attribute 'cleanup'"
PoolTimeout == "No WebDriver available in pool (timeout)"
NavigationFailed == "navigation failed"

\* what check_url_status tests a page for, in the order of its checks
Markers == <<"removed", "age", "geo", "private">>
MarkerStatus == <<"Removed", "Age-restricted", "Geo-blocked", "Private">>
\* a page: the markers its source contains, whether it has a warning element,
\* and the call that raises while it is checked: "load" (driver.get, the wait
\* for <body>, page_source), "find" (find_elements of the probe), "text"
\* (warning_elements[0].text), or "none"
Pages == [markers : SUBSET {Markers[k] : k \in 1..Len(Markers)},
          warning : BOOLEAN,
          fails : {"none", "load", "find", "text"}]
NoPage == [markers |-> {}, warning |-> FALSE, fails |-> "none"]

\* the result columns add_result_columns gives a row: '' in each; `timestamp`
\* stands for the columns that tell two results of one URL apart
NoRow == [status |-> "", timestamp |-> 0]
NoFinal == [stats |-> [live |-> 0, removed |-> 0, restricted |-> 0, errors |-> 0],
            processed_count |-> 0]

\* YouTubeScraper.min_delay and max_delay (1.0 and 3.0 seconds), in ticks of
\* the clock
min_delay == 1
max_delay == 3
\* time.time() when the run starts: last_request_time = 0 lies further back
\* than any delay
StartTime == max_delay
\* the ticks of the clock the model follows
MaxTicks == 3
MaxTime == StartTime + MaxTicks
NoTime == 0 - 1
\* a worker outside _apply_rate_limit, none of its calls ended yet: `at` is
\* the line the call is at, current_time, delay and sleep_until its locals,
\* stamp what the time.time() of the last line returned, ended the stamp of
\* the worker's previous call
NoCall == [at |-> "out", current_time |-> 0, delay |-> 0, sleep_until |-> 0,
           stamp |-> NoTime, ended |-> NoTime]

VARIABLES
    max_workers,        \* config.scraper_settings['max_workers']
    urls,               \* the URL list of the run (get_urls_from_column)
    all_drivers,        \* WebDriverPool.all_drivers
    available_drivers,  \* WebDriverPool.available_drivers (Queue)
    cancel_flag,        \* BatchProcessor.cancel_flag
    resume_event,       \* BatchProcessor.resume_event (set = not paused)
    batch_processor,    \* ProcessingController.batch_processor: 0 is None, else the run it serves
    is_processing,      \* ProcessingController.is_processing
    gui,                \* position of the GUI thread
    main,               \* position of the thread running _process_urls_thread
    work_queue,         \* tasks submitted to the executor and not yet taken
    wpc,                \* position of each executor worker
    wtask,              \* the task (index into urls) a worker is running
    driver,             \* local `driver` of check_url_status, per worker
    wstatus,            \* result.status of the worker's current check
    wsnap,              \* current_processed / current_stats of the worker
    future,             \* per task: Pending, None, or the status returned
    yielded,            \* futures as_completed has handed to the loop
    results,            \* `results` of _process_batch
    stats,              \* `stats` of _process_batch
    processed,          \* `processed` of _process_batch
    progress_queue,     \* BatchProcessor.progress_queue
    result,             \* the ProcessingResult process_csv returns
    cancel_called,      \* history: BatchProcessor.cancel_processing ran
    cancel_woke,        \* history: that call released a worker from the pause gate
    gate_blocked,       \* history: a worker has blocked on the pause gate
    since_pause,        \* history: URL checks completed under the current pause
    thread,             \* SpecCtl: position of the background thread of each run
    cancel_flags,       \* SpecCtl: cancel_flag of each run's BatchProcessor
    resume_events,      \* SpecCtl: resume_event of each run's BatchProcessor
    platform,           \* ProcessingController.platform
    column,             \* column_mapping['post']: the name mapped as the URL column
    callback,           \* what _process_urls_thread passed to the controller's callbacks
    werror,             \* result.error_message of the worker's current check
    storage,            \* per session: the cookies / storage it carries
    browser,            \* per session: "none", or the state of its Chrome process
    quits,              \* per session: the driver.quit() calls made on it
    co_is_processing,   \* ProcessingCoordinator.is_processing
    co_is_paused,       \* ProcessingCoordinator.is_paused
    last_op,            \* history: the last ProcessingCoordinator method called
    forwarded,          \* history: that call called the ProcessingController
    calls,              \* history: flips whenever a ProcessingCoordinator call returns
    last_request_by,    \* the worker whose call wrote YouTubeScraper.last_request_time
                        \* (0: it holds the 0 of __init__)
    page,               \* SpecClassify: the page check_url_status looks at
    verdict,            \* SpecClassify: the status it returned ("" before the call)
    rows,               \* SpecJoin: the URL column of the table ("" is an empty cell)
    scraping_results,   \* SpecJoin: the list _process_batch returned
    joined_df,          \* SpecJoin: the result columns of the table, row by row
    final,              \* SpecJoin: result.stats and result.processed_count
    monitor_progress,   \* ProcessingController.monitor_progress
    mon,                \* position of the thread running _monitor_progress_thread
    updates,            \* local `updates` of get_progress_updates
    returned,           \* history: the lists get_progress_updates returned, concatenated
    enqueued,           \* history: every snapshot put on progress_queue, in order
    ui_progress,        \* the snapshot the UI's progress callback was last called with
    now,                \* SpecLimiter: what time.time() returns
    last_request_time,  \* SpecLimiter: YouTubeScraper.last_request_time
    throttle            \* SpecLimiter: per worker, its call of _apply_rate_limit

\* BatchProcessor.__init__ builds WebDriverPool(pool_size=self.max_workers)
pool_size == max_workers
\* variant: the executor starts its threads whatever max_workers is
ActiveWorkersUnlimited == 1..MaxWorkers

\* the threads ThreadPoolExecutor(max_workers=self.max_workers) may start
ActiveWorkers == 1..max_workers

runVars == <<urls, all_drivers, available_drivers, cancel_flag, resume_event,
             batch_processor, is_processing, gui, main, work_queue, wpc, wtask,
             driver, wstatus, wsnap, future, yielded, results, stats, processed,
             progress_queue, result, cancel_called, cancel_woke, gate_blocked,
             since_pause>>

\* the controller's fields is_processing, batch_processor and the GUI thread's
\* position gui are shared by both specifications
ctlVars == <<thread, cancel_flags, resume_events>>

\* what the SpecCtl steps leave alone
batchVars == <<urls, all_drivers, available_drivers, cancel_flag, resume_event, main,
               work_queue, wpc, wtask, driver, wstatus, wsnap, future, yielded,
               results, stats, processed, progress_queue, result, cancel_called,
               cancel_woke, gate_blocked, since_pause>>

\* the inputs of the run, what the run reported, and the state of the sessions
ioVars == <<platform, column, callback, werror, storage>>

\* the browser processes behind the sessions
procVars == <<browser, quits>>

\* the ProcessingCoordinator and the record of the calls made on it
coVars == <<co_is_processing, co_is_paused, last_op, forwarded, calls>>

\* the argument and the value of the function a specification applies
fnVars == <<page, verdict, rows, scraping_results, joined_df, final>>

\* the progress monitor thread and what it has passed on
monVars == <<monitor_progress, mon, updates, returned, enqueued, ui_progress>>

\* the clock, the limiter's field and the calls of _apply_rate_limit
limVars == <<now, last_request_time, throttle>>

vars == <<max_workers, runVars, ctlVars, ioVars, procVars, coVars, last_request_by,
          fnVars, monVars, limVars>>

\* --------------------------------------------------------------- helpers
RECURSIVE SeqsUpTo(_, _)
SeqsUpTo(S, n) ==
    IF n = 0 THEN {<<>>}
    ELSE LET shorter == SeqsUpTo(S, n - 1)
         IN shorter \cup {Append(s, x) : s \in {t \in shorter : Len(t) = n - 1}, x \in S}

\* every non-empty list of at most MaxUrls URLs whose pages load; a run over
\* them still records Error for a URL whose get_driver times out
UrlLists == {s \in SeqsUpTo(URLS \ {"u_broken"}, MaxUrls) : Len(s) > 0}

\* the URL lists the runs with pause / resume / cancel are started with:
\* playable and broken URLs in turn, so the third entry repeats the first
Feed(n) == [i \in 1..n |-> IF i % 2 = 1 THEN "u_live" ELSE "u_broken"]
FeedLists == {Feed(n) : n \in 1..MaxUrls}

RECURSIVE Iota(_)
Iota(n) == IF n = 0 THEN <<>> ELSE Append(Iota(n - 1), n)

\* variant: the else branch counts the URL as skipped
BumpStatsSkipped(st, status) ==
    IF status = "Live" THEN [st EXCEPT !.live = @ + 1]
    ELSE IF status \in {"Removed", "Age-restricted", "Geo-blocked", "Private"}
         THEN [st EXCEPT !.removed = @ + 1]
    ELSE IF status = "Restricted" THEN [st EXCEPT !.restricted = @ + 1]
    ELSE [st EXCEPT !.skipped = @ + 1]

\* the if / elif chain of process_single_url under stats_lock
BumpStats(st, status) ==
    IF status = "Live" THEN [st EXCEPT !.live = @ + 1]
    ELSE IF status \in {"Removed", "Age-restricted", "Geo-blocked", "Private"}
         THEN [st EXCEPT !.removed = @ + 1]
    ELSE IF status = "Restricted" THEN [st EXCEPT !.restricted = @ + 1]
    ELSE [st EXCEPT !.errors = @ + 1]

\* variant: set() releases one blocked thread only
WakeOne(pcs) ==
    [w \in Workers |->
        IF pcs[w] = "waiting" /\ \A v \in Workers : v < w => pcs[v] # "waiting"
        THEN "acquire" ELSE pcs[w]]

\* threading.Event.set(): every thread blocked in wait() is released
WakeAll(pcs) == [w \in Workers |-> IF pcs[w] = "waiting" THEN "acquire" ELSE pcs[w]]

\* CSVHandler.update_results: url_to_result keeps the last result per URL,
\* every row whose URL has a result takes that result's status
RowStatus(rs, u) ==
    LET hits == {k \in 1..Len(rs) : rs[k].url = u}
    IN IF hits = {} THEN ""
       ELSE rs[CHOOSE k \in hits : \A j \in hits : j <= k].status

update_results(us, rs) == [i \in 1..Len(us) |-> RowStatus(rs, us[i])]

CountOf(df, S) == Cardinality({i \in 1..Len(df) : df[i] \in S})

\* the final stats process_csv computes from df['status'].value_counts()
FinalStats(df) ==
    [live |-> CountOf(df, {"Live"}),
     removed |-> CountOf(df, {"Removed", "Age-restricted", "Geo-blocked", "Private"}),
     restricted |-> CountOf(df, {"Restricted"}),
     errors |-> CountOf(df, {"Error"})]

\* ------------------------------------------------------------------ Init
\* the controller, its BatchProcessor and the coordinator after construction
InitRun ==
    /\ max_workers \in 1..MaxWorkers
    /\ urls = <<>>
    /\ all_drivers = {}
    /\ available_drivers = <<>>
    /\ cancel_flag = FALSE
    /\ resume_event = TRUE
    /\ batch_processor = 0
    /\ is_processing = FALSE
    /\ gui = "idle"
    /\ main = "none"
    /\ work_queue = <<>>
    /\ wpc = [w \in Workers |-> "idle"]
    /\ wtask = [w \in Workers |-> NoTask]
    /\ driver = [w \in Workers |-> NoDriver]
    /\ wstatus = [w \in Workers |-> ""]
    /\ wsnap = [w \in Workers |-> NoSnap]
    /\ future = <<>>
    /\ yielded = {}
    /\ results = <<>>
    /\ stats = ZeroStats
    /\ processed = 0
    /\ progress_queue = <<>>
    /\ result = NoResult
    /\ cancel_called = FALSE
    /\ cancel_woke = FALSE
    /\ gate_blocked = FALSE
    /\ since_pause = 0
    /\ thread = [r \in Runs |-> "none"]
    /\ cancel_flags = [r \in Runs |-> FALSE]
    /\ resume_events = [r \in Runs |-> TRUE]
    /\ platform = "youtube"
    /\ column = ""
    /\ callback = ""
    /\ werror = [w \in Workers |-> ""]
    /\ storage = [d \in 1..MaxWorkers |-> {}]
    /\ browser = [d \in 1..MaxWorkers |-> "none"]
    /\ quits = [d \in 1..MaxWorkers |-> 0]
    /\ co_is_processing = FALSE
    /\ co_is_paused = FALSE
    /\ last_op = ""
    /\ forwarded = FALSE
    /\ calls = 0
    /\ last_request_by = 0
    /\ monitor_progress = FALSE
    /\ mon = "check"
    /\ updates = <<>>
    /\ returned = <<>>
    /\ enqueued = <<>>
    /\ ui_progress = NoSnap
    /\ now = StartTime
    /\ last_request_time = 0
    /\ throttle = [w \in Workers |-> NoCall]

Init ==
    /\ InitRun
    /\ page = NoPage
    /\ verdict = ""
    /\ rows = <<>>
    /\ scraping_results = <<>>
    /\ joined_df = <<>>
    /\ final = NoFinal

\* ------------------------------------------------------- GUI thread steps
\* ProcessingController.start_processing, with BatchProcessor.__init__ and
\* WebDriverPool._initialize_pool: `created` sessions are made before a
\* webdriver.Chrome call fails (created = pool_size when none fails).
start_processing(us, created, pf, col) ==
    /\ gui = "idle"
    /\ main = "none"
    /\ ~is_processing
    /\ urls' = us
    /\ platform' = pf
    /\ column' = col
    /\ storage' = [d \in 1..MaxWorkers |-> {}]
    /\ is_processing' = TRUE
    /\ batch_processor' = 1
    /\ cancel_flag' = FALSE
    /\ resume_event' = TRUE
    /\ all_drivers' = 1..created
    /\ available_drivers' = Iota(created)
    /\ main' = "spawned"
    /\ UNCHANGED <<gui, work_queue, wpc, wtask, driver, wstatus, wsnap, future,
                   yielded, results, stats, processed, progress_queue, result,
                   cancel_called, since_pause, cancel_woke,
                   gate_blocked>>
    /\ browser' = [d \in 1..MaxWorkers |-> IF d <= created THEN "running" ELSE "none"]
    /\ quits' = [d \in 1..MaxWorkers |-> 0]
    /\ UNCHANGED <<max_workers, ctlVars, coVars, last_request_by, fnVars, limVars>>
    /\ UNCHANGED <<callback, werror>>
    /\ monitor_progress' = TRUE
    /\ UNCHANGED <<mon, updates, returned, enqueued, ui_progress>>

\* ProcessingController.pause_processing -> BatchProcessor.pause_processing
pause_processing ==
    /\ gui = "idle"
    /\ batch_processor # 0 /\ is_processing
    /\ resume_event' = FALSE
    /\ since_pause' = 0
    /\ UNCHANGED <<urls, all_drivers, available_drivers, cancel_flag, batch_processor,
                   is_processing, gui, main, work_queue, wpc, wtask, driver, wstatus,
                   wsnap, future, yielded, results, stats, processed, progress_queue,
                   result, cancel_called, cancel_woke,
                   gate_blocked>>
    /\ UNCHANGED <<max_workers, ctlVars, procVars, coVars, last_request_by, fnVars, limVars, monVars>>
    /\ UNCHANGED <<platform, column, callback, werror, storage>>

\* variant: on resume the workers blocked on the gate give up their URL
resume_processing_drop ==
    /\ gui = "idle"
    /\ batch_processor # 0 /\ is_processing
    /\ resume_event' = TRUE
    /\ wpc' = [w \in Workers |-> IF wpc[w] = "waiting" THEN "idle" ELSE wpc[w]]
    /\ wtask' = [w \in Workers |-> IF wpc[w] = "waiting" THEN NoTask ELSE wtask[w]]
    /\ future' = [i \in 1..Len(future) |->
                    IF \E w \in Workers : wpc[w] = "waiting" /\ wtask[w] = i
                    THEN None ELSE future[i]]
    /\ since_pause' = 0
    /\ UNCHANGED <<urls, all_drivers, available_drivers, cancel_flag, batch_processor,
                   is_processing, gui, main, work_queue, driver, wstatus,
                   wsnap, yielded, results, stats, processed, progress_queue,
                   result, cancel_called, cancel_woke, gate_blocked>>
    /\ UNCHANGED <<max_workers, ctlVars, procVars, coVars, last_request_by, fnVars, limVars, monVars>>
    /\ UNCHANGED <<platform, column, callback, werror, storage>>

\* ProcessingController.resume_processing -> BatchProcessor.resume_processing
resume_processing ==
    /\ gui = "idle"
    /\ batch_processor # 0 /\ is_processing
    /\ resume_event' = TRUE
    /\ wpc' = WakeAll(wpc)
    /\ since_pause' = 0
    /\ UNCHANGED <<urls, all_drivers, available_drivers, cancel_flag, batch_processor,
                   is_processing, gui, main, work_queue, wtask, driver, wstatus,
                   wsnap, future, yielded, results, stats, processed, progress_queue,
                   result, cancel_called, cancel_woke,
                   gate_blocked>>
    /\ UNCHANGED <<max_workers, ctlVars, procVars, coVars, last_request_by, fnVars, limVars, monVars>>
    /\ UNCHANGED <<platform, column, callback, werror, storage>>

\* variant: cancel sets the cancel flag and leaves resume_event alone
cancel_processing_no_resume ==
    /\ gui = "idle"
    /\ batch_processor # 0
    /\ cancel_flag' = TRUE
    /\ cancel_called' = TRUE
    /\ since_pause' = 0
    /\ gui' = "joining"
    /\ UNCHANGED <<urls, all_drivers, available_drivers, resume_event, batch_processor,
                   is_processing, main, work_queue, wpc, wtask, driver, wstatus,
                   wsnap, future, yielded, results, stats, processed, progress_queue,
                   result, cancel_woke, gate_blocked>>
    /\ UNCHANGED <<max_workers, ctlVars, procVars, coVars, last_request_by, fnVars, limVars>>
    /\ UNCHANGED <<platform, column, callback, werror, storage>>
    /\ monitor_progress' = FALSE
    /\ UNCHANGED <<mon, updates, returned, enqueued, ui_progress>>

\* ProcessingController.cancel_processing up to the join:
\* BatchProcessor.cancel_processing sets cancel_flag and resume_event
cancel_processing ==
    /\ gui = "idle"
    /\ batch_processor # 0
    /\ cancel_flag' = TRUE
    /\ resume_event' = TRUE
    /\ wpc' = WakeAll(wpc)
    /\ cancel_called' = TRUE
    /\ cancel_woke' = (cancel_woke \/ \E w \in Workers : wpc[w] = "waiting")
    /\ since_pause' = 0
    /\ gui' = "joining"
    /\ UNCHANGED <<urls, all_drivers, available_drivers, batch_processor,
                   is_processing, main, work_queue, wtask, driver, wstatus,
                   wsnap, future, yielded, results, stats, processed, progress_queue,
                   result, gate_blocked>>
    /\ UNCHANGED <<max_workers, ctlVars, procVars, coVars, last_request_by, fnVars, limVars>>
    /\ UNCHANGED <<platform, column, callback, werror, storage>>
    /\ monitor_progress' = FALSE
    /\ UNCHANGED <<mon, updates, returned, enqueued, ui_progress>>

\* the rest of cancel_processing: join(timeout=2.0) returns, because the
\* thread ended or because the two seconds passed; is_processing = False
cancel_join_return ==
    /\ gui = "joining"
    /\ is_processing' = FALSE
    /\ gui' = "idle"
    /\ UNCHANGED <<urls, all_drivers, available_drivers, cancel_flag, resume_event,
                   batch_processor, main, work_queue, wpc, wtask, driver, wstatus,
                   wsnap, future, yielded, results, stats, processed, progress_queue,
                   result, cancel_called, since_pause, cancel_woke,
                   gate_blocked>>
    /\ UNCHANGED <<max_workers, ctlVars, procVars, coVars, last_request_by, fnVars, limVars, monVars>>
    /\ UNCHANGED <<platform, column, callback, werror, storage>>

\* variant: the loop of WebDriverPool.cleanup has no try / except around
\* driver.quit(): the first quit() that raises ends the loop
quit_all_until_failure(ds, failing) ==
    {d \in ds : \A f \in failing : d <= f}

\* the loop of WebDriverPool.cleanup: the sessions driver.quit() is called on,
\* `failing` being those whose quit() raises
quit_all(ds, failing) == ds

\* ProcessingController.cleanup while is_processing: cancel_processing up to
\* the join, as in cancel_processing (is_processing is FALSE once a cleanup
\* has run, so this is the first cleanup)
cleanup_cancel ==
    /\ gui = "idle"
    /\ is_processing
    /\ batch_processor # 0
    /\ cancel_flag' = TRUE
    /\ resume_event' = TRUE
    /\ wpc' = WakeAll(wpc)
    /\ cancel_called' = TRUE
    /\ cancel_woke' = (cancel_woke \/ \E w \in Workers : wpc[w] = "waiting")
    /\ since_pause' = 0
    /\ gui' = "cleanup_join"
    /\ UNCHANGED <<urls, all_drivers, available_drivers, batch_processor,
                   is_processing, main, work_queue, wtask, driver, wstatus,
                   wsnap, future, yielded, results, stats, processed, progress_queue,
                   result, gate_blocked>>
    /\ UNCHANGED <<max_workers, ctlVars, procVars, coVars, last_request_by, fnVars, limVars>>
    /\ UNCHANGED <<platform, column, callback, werror, storage>>
    /\ monitor_progress' = FALSE
    /\ UNCHANGED <<mon, updates, returned, enqueued, ui_progress>>

\* the rest of ProcessingController.cleanup: the join of cancel_processing has
\* returned (the thread ended or the two seconds passed) or no run was in
\* progress; BatchProcessor.cleanup sets cancel_flag and WebDriverPool.cleanup
\* quits every session of all_drivers, clears the list and empties the queue.
\* The first call is the one in the finally block of MainWindow.run ("closed"),
\* the later ones are those of cleanup_on_exit ("exited").
cleanup_pool(failing) ==
    /\ \/ gui = "cleanup_join"
       \/ gui \in {"idle", "closed", "exited"} /\ ~is_processing
    /\ failing \subseteq all_drivers
    /\ is_processing' = FALSE
    /\ gui' = IF gui \in {"idle", "cleanup_join"} THEN "closed" ELSE "exited"
    /\ IF batch_processor = 0
       THEN UNCHANGED <<cancel_flag, quits, browser, all_drivers, available_drivers>>
       ELSE /\ cancel_flag' = TRUE
            /\ quits' = [d \in 1..MaxWorkers |->
                            IF d \in quit_all(all_drivers, failing) THEN quits[d] + 1
                            ELSE quits[d]]
            /\ browser' = [d \in 1..MaxWorkers |->
                            IF d \in quit_all(all_drivers, failing) \ failing THEN "closed"
                            ELSE browser[d]]
            /\ all_drivers' = {}
            /\ available_drivers' = <<>>
    /\ UNCHANGED <<urls, resume_event, batch_processor, main, work_queue, wpc, wtask,
                   driver, wstatus, wsnap, future, yielded, results, stats, processed,
                   progress_queue, result, cancel_called, cancel_woke, gate_blocked,
                   since_pause>>
    /\ UNCHANGED <<max_workers, ctlVars, coVars, last_request_by, fnVars, limVars, monVars>>
    /\ UNCHANGED <<platform, column, callback, werror, storage>>

\* ------------------------------------------------ background thread steps
\* CSVHandler.validate_column_mapping for the mapping {'post': col}
validate_column_mapping(col) == ~(col # "" /\ col \notin DfColumns)

\* BatchProcessor._create_scraper
create_scraper(pf) == IF pf = "youtube" THEN "YouTubeScraper" ELSE None

\* variant: get_urls_from_column returns whatever it finds and never raises
get_urls_unchecked(col, us) == ""

\* CSVHandler.get_urls_from_column: the message of the ValueError it raises,
\* "" when it returns the URLs
get_urls_from_column(col, us) ==
    IF col \notin DfColumns THEN ColumnNotFound
    ELSE IF us = <<>> THEN NoUrlsFound
    ELSE ""

\* steps 1-4 of process_csv: "ok" when _process_batch is reached, "raise" when
\* an exception leaves process_csv, else the error_message of the result returned
SetupOutcome(pf, col, us) ==
    IF ~validate_column_mapping(col) THEN MissingColumns
    ELSE IF create_scraper(pf) = None THEN "raise"
    ELSE IF get_urls_from_column(col, us) # "" THEN get_urls_from_column(col, us)
    ELSE "ok"

\* process_csv up to the submission of the futures in _process_batch, or up to
\* its early end: `return result` after a failed validation, the except clause
\* after get_urls_from_column raised, or the finally block calling cleanup()
\* on the None that _create_scraper returned
process_csv_begin ==
    /\ main = "spawned"
    /\ cancel_flag' = FALSE
    /\ LET outcome == SetupOutcome(platform, column, urls)
       IN IF outcome = "ok"
          THEN /\ work_queue' = Iota(Len(urls))
               /\ future' = [i \in 1..Len(urls) |-> Pending]
               /\ main' = "collect"
               /\ UNCHANGED result
          ELSE IF outcome = "raise"
          THEN /\ main' = "raised"
               /\ UNCHANGED <<work_queue, future, result>>
          ELSE /\ result' = [NoResult EXCEPT !.error_message = outcome]
               /\ main' = "returned"
               /\ UNCHANGED <<work_queue, future>>
    /\ UNCHANGED <<urls, all_drivers, available_drivers, resume_event, batch_processor,
                   is_processing, gui, wpc, wtask, driver, wstatus, wsnap, yielded,
                   results, stats, processed, progress_queue, cancel_called,
                   since_pause, cancel_woke,
                   gate_blocked>>
    /\ last_request_by' = IF validate_column_mapping(column)
                                /\ create_scraper(platform) = "YouTubeScraper"
                           THEN 0    \* YouTubeScraper.__init__: last_request_time = 0
                           ELSE last_request_by
    /\ UNCHANGED <<max_workers, ctlVars, procVars, coVars, fnVars, limVars, monVars>>
    /\ UNCHANGED <<platform, column, callback, werror, storage>>

\* one turn of `for future in as_completed(futures)`
as_completed_next(i) ==
    /\ main = "collect"
    /\ i \in 1..Len(urls) /\ i \notin yielded
    /\ future[i] # Pending
    /\ IF cancel_flag
       THEN /\ main' = "shutdown"
            /\ UNCHANGED <<yielded, results>>
       ELSE /\ yielded' = yielded \cup {i}
            /\ results' = IF future[i] # None
                          THEN Append(results, [task |-> i, url |-> urls[i], status |-> future[i]])
                          ELSE results
            /\ main' = IF yielded' = 1..Len(urls) THEN "shutdown" ELSE "collect"
    /\ UNCHANGED <<urls, all_drivers, available_drivers, cancel_flag, resume_event,
                   batch_processor, is_processing, gui, work_queue, wpc, wtask, driver,
                   wstatus, wsnap, future, stats, processed, progress_queue, result,
                   cancel_called, since_pause, cancel_woke,
                   gate_blocked>>
    /\ UNCHANGED <<max_workers, ctlVars, procVars, coVars, last_request_by, fnVars, limVars, monVars>>
    /\ UNCHANGED <<platform, column, callback, werror, storage>>

\* variant: a cancelled run returns its table too, the rows that have no
\* result marked Error
process_csv_return_partial_table ==
    /\ main = "shutdown"
    /\ work_queue = <<>>
    /\ \A w \in Workers : wpc[w] = "idle"
    /\ LET df == [i \in 1..Len(urls) |->
                    IF RowStatus(results, urls[i]) = "" THEN "Error"
                    ELSE RowStatus(results, urls[i])]
       IN result' = [success |-> ~cancel_flag,
                     processed_count |-> Len(results),
                     error_message |-> IF cancel_flag THEN Cancelled ELSE "",
                     stats |-> FinalStats(df),
                     dataframe |-> df]
    /\ main' = "returned"
    /\ UNCHANGED <<urls, all_drivers, available_drivers, cancel_flag, resume_event,
                   batch_processor, is_processing, gui, work_queue, wpc, wtask, driver,
                   wstatus, wsnap, future, yielded, results, stats, processed,
                   progress_queue, cancel_called, since_pause, cancel_woke,
                   gate_blocked>>
    /\ UNCHANGED <<max_workers, ctlVars, procVars, coVars, last_request_by, fnVars, limVars, monVars>>
    /\ UNCHANGED <<platform, column, callback, werror, storage>>

\* variant: the executor is shut down with wait=False, process_csv goes on
\* while workers are still running
process_csv_return_no_wait ==
    /\ main = "shutdown"
    /\ result' = IF cancel_flag
                 THEN [NoResult EXCEPT !.error_message = Cancelled]
                 ELSE [success |-> TRUE,
                       processed_count |-> Len(results),
                       error_message |-> "",
                       stats |-> FinalStats(update_results(urls, results)),
                       dataframe |-> update_results(urls, results)]
    /\ main' = "returned"
    /\ UNCHANGED <<urls, all_drivers, available_drivers, cancel_flag, resume_event,
                   batch_processor, is_processing, gui, work_queue, wpc, wtask, driver,
                   wstatus, wsnap, future, yielded, results, stats, processed,
                   progress_queue, cancel_called, since_pause, cancel_woke,
                   gate_blocked>>
    /\ UNCHANGED <<max_workers, ctlVars, procVars, coVars, last_request_by, fnVars, limVars, monVars>>
    /\ UNCHANGED <<platform, column, callback, werror, storage>>

\* the executor's __exit__ (shutdown(wait=True)) returns once every worker has
\* run every submitted task; then process_csv steps 5-7 and its return
process_csv_return ==
    /\ main = "shutdown"
    /\ work_queue = <<>>
    /\ \A w \in Workers : wpc[w] = "idle"
    /\ result' = IF cancel_flag
                 THEN [NoResult EXCEPT !.error_message = Cancelled]
                 ELSE [success |-> TRUE,
                       processed_count |-> Len(results),
                       error_message |-> "",
                       stats |-> FinalStats(update_results(urls, results)),
                       dataframe |-> update_results(urls, results)]
    /\ main' = "returned"
    /\ UNCHANGED <<urls, all_drivers, available_drivers, cancel_flag, resume_event,
                   batch_processor, is_processing, gui, work_queue, wpc, wtask, driver,
                   wstatus, wsnap, future, yielded, results, stats, processed,
                   progress_queue, cancel_called, since_pause, cancel_woke,
                   gate_blocked>>
    /\ UNCHANGED <<max_workers, ctlVars, procVars, coVars, last_request_by, fnVars, limVars, monVars>>
    /\ UNCHANGED <<platform, column, callback, werror, storage>>

\* _process_urls_thread after process_csv: on_processing_complete(result) or
\* on_processing_error(result.error_message), on_processing_error of the
\* except clause when process_csv raised, and the finally block
process_urls_thread_finally ==
    /\ main \in {"returned", "raised"}
    /\ callback' = IF main = "raised" THEN NoneHasNoCleanup
                   ELSE IF result.success THEN "complete"
                   ELSE result.error_message
    /\ is_processing' = FALSE
    /\ main' = "dead"
    /\ UNCHANGED <<urls, all_drivers, available_drivers, cancel_flag, resume_event,
                   batch_processor, gui, work_queue, wpc, wtask, driver, wstatus,
                   wsnap, future, yielded, results, stats, processed, progress_queue,
                   result, cancel_called, since_pause, cancel_woke,
                   gate_blocked>>
    /\ UNCHANGED <<max_workers, ctlVars, procVars, coVars, last_request_by, fnVars, limVars>>
    /\ UNCHANGED <<platform, column, werror, storage>>
    /\ monitor_progress' = FALSE
    /\ UNCHANGED <<mon, updates, returned, enqueued, ui_progress>>

\* ------------------------------------------------------------ worker steps
\* an executor thread takes the next work item and enters process_single_url:
\* `if self.cancel_flag.is_set(): return None`.  Idle executor threads are
\* interchangeable, so the lowest-numbered idle one stands for whichever takes it.
take_task(w) ==
    /\ w \in ActiveWorkers
    /\ wpc[w] = "idle"
    /\ \A v \in ActiveWorkers : v < w => wpc[v] # "idle"
    /\ work_queue # <<>>
    /\ LET i == Head(work_queue)
       IN IF cancel_flag
          THEN /\ future' = [future EXCEPT ![i] = None]
               /\ UNCHANGED <<wpc, wtask>>
          ELSE /\ wpc' = [wpc EXCEPT ![w] = "gate"]
               /\ wtask' = [wtask EXCEPT ![w] = i]
               /\ UNCHANGED future
    /\ work_queue' = Tail(work_queue)
    /\ UNCHANGED <<urls, all_drivers, available_drivers, cancel_flag, resume_event,
                   batch_processor, is_processing, gui, main, driver, wstatus, wsnap,
                   yielded, results, stats, processed, progress_queue, result,
                   cancel_called, since_pause, cancel_woke,
                   gate_blocked>>
    /\ UNCHANGED <<max_workers, ctlVars, procVars, coVars, last_request_by, fnVars, limVars, monVars>>
    /\ UNCHANGED <<platform, column, callback, werror, storage>>

\* variant: the scraper was never given the event (pause_event is None)
check_pause_no_event(w) ==
    /\ wpc[w] = "gate"
    /\ wpc' = [wpc EXCEPT ![w] = "acquire"]
    /\ UNCHANGED <<urls, all_drivers, available_drivers, cancel_flag, resume_event,
                   batch_processor, is_processing, gui, main, work_queue, wtask, driver,
                   wstatus, wsnap, future, yielded, results, stats, processed,
                   progress_queue, result, cancel_called, cancel_woke, gate_blocked,
                   since_pause>>
    /\ UNCHANGED <<max_workers, ctlVars, procVars, coVars, last_request_by, fnVars, limVars, monVars>>
    /\ UNCHANGED <<platform, column, callback, werror, storage>>

\* variant: check_url_status gets its driver first and checks the pause after
check_pause_with_driver(w) ==
    /\ wpc[w] = "gate"
    /\ available_drivers # <<>>
    /\ driver' = [driver EXCEPT ![w] = Head(available_drivers)]
    /\ available_drivers' = Tail(available_drivers)
    /\ wpc' = [wpc EXCEPT ![w] = IF resume_event THEN "navigate" ELSE "waiting"]
    /\ gate_blocked' = (gate_blocked \/ ~resume_event)
    /\ UNCHANGED <<urls, all_drivers, cancel_flag, resume_event,
                   batch_processor, is_processing, gui, main, work_queue, wtask,
                   wstatus, wsnap, future, yielded, results, stats, processed,
                   progress_queue, result, cancel_called, cancel_woke, since_pause>>
    /\ UNCHANGED <<max_workers, ctlVars, procVars, coVars, last_request_by, fnVars, limVars, monVars>>
    /\ UNCHANGED <<platform, column, callback, werror, storage>>

\* YouTubeScraper._check_pause: pause_event.wait()
check_pause(w) ==
    /\ wpc[w] = "gate"
    /\ wpc' = [wpc EXCEPT ![w] = IF resume_event THEN "acquire" ELSE "waiting"]
    /\ gate_blocked' = (gate_blocked \/ ~resume_event)
    /\ UNCHANGED <<urls, all_drivers, available_drivers, cancel_flag, resume_event,
                   batch_processor, is_processing, gui, main, work_queue, wtask, driver,
                   wstatus, wsnap, future, yielded, results, stats, processed,
                   progress_queue, result, cancel_called, cancel_woke, since_pause>>
    /\ UNCHANGED <<max_workers, ctlVars, procVars, coVars, last_request_by, fnVars, limVars, monVars>>
    /\ UNCHANGED <<platform, column, callback, werror, storage>>

\* YouTubeScraper._apply_rate_limit called by worker w: it reads
\* self.last_request_time of the scraper, sleeps, and writes it.  The scraper
\* is the one _create_scraper made for the run; process_single_url calls it
\* from every worker thread.
apply_rate_limit(w) == last_request_by' = w

\* _apply_rate_limit, then WebDriverPool.get_driver finds a session
get_driver(w) ==
    /\ wpc[w] = "acquire"
    /\ available_drivers # <<>>
    /\ driver' = [driver EXCEPT ![w] = Head(available_drivers)]
    /\ available_drivers' = Tail(available_drivers)
    /\ wpc' = [wpc EXCEPT ![w] = "navigate"]
    /\ UNCHANGED <<urls, all_drivers, cancel_flag, resume_event, batch_processor,
                   is_processing, gui, main, work_queue, wtask, wstatus, wsnap, future,
                   yielded, results, stats, processed, progress_queue, result,
                   cancel_called, since_pause, cancel_woke,
                   gate_blocked>>
    /\ apply_rate_limit(w)
    /\ UNCHANGED <<max_workers, ctlVars, procVars, coVars, fnVars, limVars, monVars>>
    /\ UNCHANGED <<platform, column, callback, werror, storage>>

\* variant: after the timeout get_driver starts one more browser and hands it out
get_driver_timeout_spawn(w) ==
    /\ wpc[w] = "acquire"
    /\ available_drivers = <<>>
    /\ Cardinality(all_drivers) < MaxWorkers
    /\ all_drivers' = all_drivers \cup {Cardinality(all_drivers) + 1}
    /\ driver' = [driver EXCEPT ![w] = Cardinality(all_drivers) + 1]
    /\ wpc' = [wpc EXCEPT ![w] = "navigate"]
    /\ UNCHANGED <<urls, available_drivers, cancel_flag, resume_event,
                   batch_processor, is_processing, gui, main, work_queue, wtask,
                   wstatus, wsnap, future, yielded, results, stats, processed,
                   progress_queue, result, cancel_called, since_pause, cancel_woke,
                   gate_blocked>>
    /\ apply_rate_limit(w)
    /\ UNCHANGED <<max_workers, ctlVars, procVars, coVars, fnVars, limVars, monVars>>
    /\ UNCHANGED <<platform, column, callback, werror, storage>>

\* get_driver raises after `timeout` seconds of an empty queue; check_url_status
\* turns the exception into an Error result and has no driver to return
get_driver_timeout(w) ==
    /\ wpc[w] = "acquire"
    /\ available_drivers = <<>>
    /\ wstatus' = [wstatus EXCEPT ![w] = "Error"]
    /\ werror' = [werror EXCEPT ![w] = PoolTimeout]
    /\ wpc' = [wpc EXCEPT ![w] = "update"]
    /\ UNCHANGED <<urls, all_drivers, available_drivers, cancel_flag, resume_event,
                   batch_processor, is_processing, gui, main, work_queue, wtask, driver,
                   wsnap, future, yielded, results, stats, processed, progress_queue,
                   result, cancel_called, since_pause, cancel_woke,
                   gate_blocked>>
    /\ apply_rate_limit(w)
    /\ UNCHANGED <<max_workers, ctlVars, procVars, coVars, fnVars, limVars, monVars>>
    /\ UNCHANGED <<platform, column, callback, storage>>

\* variant: return_driver clears the session and does not put it back
return_driver_no_put(q, d) == q

\* variant: the driver is put back twice
return_driver_twice(q, d) ==
    IF d # NoDriver /\ d \in all_drivers THEN Append(Append(q, d), d) ELSE q

\* WebDriverPool.return_driver
return_driver(q, d) == IF d # NoDriver /\ d \in all_drivers THEN Append(q, d) ELSE q

\* what the try block of return_driver leaves in the session when its clearing
\* step number `failed` raises (0: none does): the except clause skips the
\* steps after it
LeftInSession(failed) ==
    IF failed = 0 THEN {} ELSE {StorageKinds[k] : k \in failed..Len(StorageKinds)}

\* what the try block of check_url_status may end with: the status of the
\* page, and Error as well when the session was quit under the check
CheckOutcomes(w) ==
    {PageStatus(urls[wtask[w]])}
        \cup (IF browser[driver[w]] = "closed" THEN {"Error"} ELSE {})

\* driver.get(url) and the page checks give the status (Error when any of
\* them raises); the page leaves cookies and storage in the session; the
\* finally block returns the driver to the pool
check_done(w, failed) ==
    /\ wpc[w] = "navigate"
    /\ \E st \in CheckOutcomes(w) :
        /\ wstatus' = [wstatus EXCEPT ![w] = st]
        /\ werror' = [werror EXCEPT ![w] =
                        IF st = "Error" THEN NavigationFailed ELSE ""]
    /\ storage' = [storage EXCEPT ![driver[w]] = LeftInSession(failed)]
    /\ available_drivers' = return_driver(available_drivers, driver[w])
    /\ driver' = [driver EXCEPT ![w] = NoDriver]
    /\ wpc' = [wpc EXCEPT ![w] = "update"]
    /\ UNCHANGED <<urls, all_drivers, cancel_flag, resume_event, batch_processor,
                   is_processing, gui, main, work_queue, wtask, wsnap, future, yielded,
                   results, stats, processed, progress_queue, result, cancel_called,
                   since_pause, cancel_woke,
                   gate_blocked>>
    /\ UNCHANGED <<max_workers, ctlVars, procVars, coVars, last_request_by, fnVars, limVars, monVars>>
    /\ UNCHANGED <<platform, column, callback>>

\* variant: check_url_status has no except clause; a failing navigation leaves
\* it as an exception (the finally block still returns the driver) and the
\* except clause of process_single_url counts an error and returns None
finish_check_raises(w) ==
    /\ wpc[w] = "navigate"
    /\ IF PageStatus(urls[wtask[w]]) # "Error" THEN check_done(w, 0)
       ELSE /\ storage' = [storage EXCEPT ![driver[w]] = {}]
            /\ available_drivers' = return_driver(available_drivers, driver[w])
            /\ driver' = [driver EXCEPT ![w] = NoDriver]
            /\ stats' = [stats EXCEPT !.errors = @ + 1]
            /\ processed' = processed + 1
            /\ since_pause' = IF resume_event THEN 0 ELSE since_pause + 1
            /\ future' = [future EXCEPT ![wtask[w]] = None]
            /\ wpc' = [wpc EXCEPT ![w] = "idle"]
            /\ wtask' = [wtask EXCEPT ![w] = NoTask]
            /\ UNCHANGED <<urls, all_drivers, cancel_flag, resume_event, batch_processor,
                           is_processing, gui, main, work_queue, wstatus, wsnap, yielded,
                           results, progress_queue, result, cancel_called, cancel_woke,
                           gate_blocked>>
            /\ UNCHANGED <<max_workers, ctlVars, procVars, coVars, last_request_by, fnVars, limVars, monVars>>
            /\ UNCHANGED <<platform, column, callback, werror>>

\* the end of a URL check in which every clearing step of return_driver works
finish_check(w) == check_done(w, 0)

\* the end of a URL check in which a clearing step of return_driver raises
finish_check_clear_fails(w) == \E failed \in 1..Len(StorageKinds) : check_done(w, failed)

\* variant: current_processed is read before `processed += 1`
update_stats_stale(w) ==
    /\ wpc[w] = "update"
    /\ stats' = BumpStats(stats, wstatus[w])
    /\ processed' = processed + 1
    /\ wsnap' = [wsnap EXCEPT ![w] = [current |-> processed, total |-> Len(urls), stats |-> stats']]
    /\ since_pause' = IF resume_event THEN 0 ELSE since_pause + 1
    /\ wpc' = [wpc EXCEPT ![w] = "publish"]
    /\ UNCHANGED <<urls, all_drivers, available_drivers, cancel_flag, resume_event,
                   batch_processor, is_processing, gui, main, work_queue, wtask, driver,
                   wstatus, future, yielded, results, progress_queue, result,
                   cancel_called, cancel_woke, gate_blocked>>
    /\ UNCHANGED <<max_workers, ctlVars, procVars, coVars, last_request_by, fnVars, limVars, monVars>>
    /\ UNCHANGED <<platform, column, callback, werror, storage>>

\* the `with stats_lock:` block of process_single_url
update_stats(w) ==
    /\ wpc[w] = "update"
    /\ stats' = BumpStats(stats, wstatus[w])
    /\ processed' = processed + 1
    /\ wsnap' = [wsnap EXCEPT ![w] = [current |-> processed', total |-> Len(urls), stats |-> stats']]
    /\ since_pause' = IF resume_event THEN 0 ELSE since_pause + 1
    /\ wpc' = [wpc EXCEPT ![w] = "publish"]
    /\ UNCHANGED <<urls, all_drivers, available_drivers, cancel_flag, resume_event,
                   batch_processor, is_processing, gui, main, work_queue, wtask, driver,
                   wstatus, future, yielded, results, progress_queue, result,
                   cancel_called, cancel_woke,
                   gate_blocked>>
    /\ UNCHANGED <<max_workers, ctlVars, procVars, coVars, last_request_by, fnVars, limVars, monVars>>
    /\ UNCHANGED <<platform, column, callback, werror, storage>>

\* variant: process_single_url returns None for a check that ended in Error
publish_drop_error(w) ==
    /\ wpc[w] = "publish"
    /\ progress_queue' = Append(progress_queue, wsnap[w])
    /\ future' = [future EXCEPT ![wtask[w]] = IF wstatus[w] = "Error" THEN None ELSE wstatus[w]]
    /\ wpc' = [wpc EXCEPT ![w] = "idle"]
    /\ wtask' = [wtask EXCEPT ![w] = NoTask]
    /\ wstatus' = [wstatus EXCEPT ![w] = ""]
    /\ werror' = [werror EXCEPT ![w] = ""]
    /\ wsnap' = [wsnap EXCEPT ![w] = NoSnap]
    /\ UNCHANGED <<urls, all_drivers, available_drivers, cancel_flag, resume_event,
                   batch_processor, is_processing, gui, main, work_queue, driver,
                   yielded, results, stats, processed, result, cancel_called,
                   cancel_woke, gate_blocked, since_pause>>
    /\ UNCHANGED <<max_workers, ctlVars, procVars, coVars, last_request_by, fnVars, limVars>>
    /\ UNCHANGED <<platform, column, callback, storage>>
    /\ enqueued' = Append(enqueued, wsnap[w])
    /\ UNCHANGED <<monitor_progress, mon, updates, returned, ui_progress>>

\* progress_queue.put(progress_data); return result_dict
publish(w) ==
    /\ wpc[w] = "publish"
    /\ progress_queue' = Append(progress_queue, wsnap[w])
    /\ future' = [future EXCEPT ![wtask[w]] = wstatus[w]]
    /\ wpc' = [wpc EXCEPT ![w] = "idle"]
    /\ wtask' = [wtask EXCEPT ![w] = NoTask]
    /\ wstatus' = [wstatus EXCEPT ![w] = ""]
    /\ werror' = [werror EXCEPT ![w] = ""]
    /\ wsnap' = [wsnap EXCEPT ![w] = NoSnap]
    /\ UNCHANGED <<urls, all_drivers, available_drivers, cancel_flag, resume_event,
                   batch_processor, is_processing, gui, main, work_queue, driver,
                   yielded, results, stats, processed, result, cancel_called,
                   since_pause, cancel_woke,
                   gate_blocked>>
    /\ UNCHANGED <<max_workers, ctlVars, procVars, coVars, last_request_by, fnVars, limVars>>
    /\ UNCHANGED <<platform, column, callback, storage>>
    /\ enqueued' = Append(enqueued, wsnap[w])
    /\ UNCHANGED <<monitor_progress, mon, updates, returned, ui_progress>>

WorkerStep(w) ==
    \/ take_task(w)
    \/ check_pause(w)
    \/ get_driver(w)
    \/ get_driver_timeout(w)
    \/ finish_check(w)
    \/ update_stats(w)
    \/ publish(w)

MainStep ==
    \/ process_csv_begin
    \/ \E i \in 1..MaxUrls : as_completed_next(i)
    \/ process_csv_return
    \/ process_urls_thread_finally

Next ==
    \/ /\ main = "none"
       /\ \E us \in FeedLists \cup {<<>>}, created \in 0..pool_size,
             pf \in Platforms, col \in Columns :
                start_processing(us, created, pf, col)
    \/ pause_processing
    \/ resume_processing
    \/ cancel_processing
    \/ cancel_join_return
    \/ MainStep
    \/ \E w \in Workers : WorkerStep(w)

Spec == Init /\ [][Next]_vars

\* the operating system keeps running the threads: while the background
\* thread or an executor worker can take a step, one of them does
Fairness == WF_vars(MainStep \/ \E w \in Workers : WorkerStep(w))

FairSpec == Init /\ [][Next]_vars /\ Fairness

\* runs nobody pauses or cancels, over every URL list
NextBatch ==
    \/ /\ main = "none"
       /\ \E us \in UrlLists, created \in 0..pool_size :
                start_processing(us, created, "youtube", "post")
    \/ MainStep
    \/ \E w \in Workers : WorkerStep(w)

SpecBatch == Init /\ [][NextBatch]_vars

\* runs nobody pauses or cancels, in which the clearing steps of return_driver
\* may raise
NextSession ==
    \/ /\ main = "none"
       /\ \E us \in FeedLists, created \in 0..pool_size :
                start_processing(us, created, "youtube", "post")
    \/ MainStep
    \/ \E w \in Workers : WorkerStep(w)
    \/ \E w \in Workers : finish_check_clear_fails(w)

SpecSession == Init /\ [][NextSession]_vars

\* runs during which the application may be closed: ProcessingController.cleanup
\* is called by MainWindow.run's finally block and again by cleanup_on_exit
NextTeardown ==
    \/ /\ main = "none"
       /\ \E us \in FeedLists, created \in 0..pool_size :
                start_processing(us, created, "youtube", "post")
    \/ pause_processing
    \/ resume_processing
    \/ cancel_processing
    \/ cancel_join_return
    \/ cleanup_cancel
    \/ \E failing \in SUBSET (1..MaxWorkers) : cleanup_pool(failing)
    \/ MainStep
    \/ \E w \in Workers : WorkerStep(w)

SpecTeardown == Init /\ [][NextTeardown]_vars

\* ------------------------------------------------------------------------
\* SpecReturn: SpecTeardown with return_driver taken line by line.
\* return_driver holds no lock: WebDriverPool.cleanup can run between its
\* test `driver in self.all_drivers` and its available_drivers.put(driver).

\* the try block of check_url_status has ended, its finally block has called
\* return_driver, and the test `if driver and driver in self.all_drivers`
\* has passed
return_driver_test(w) ==
    /\ wpc[w] = "navigate"
    /\ driver[w] \in all_drivers
    /\ \E st \in CheckOutcomes(w) :
        /\ wstatus' = [wstatus EXCEPT ![w] = st]
        /\ werror' = [werror EXCEPT ![w] =
                        IF st = "Error" THEN NavigationFailed ELSE ""]
    /\ wpc' = [wpc EXCEPT ![w] = "returning"]
    /\ UNCHANGED <<urls, all_drivers, available_drivers, cancel_flag, resume_event,
                   batch_processor, is_processing, gui, main, work_queue, wtask,
                   driver, wsnap, future, yielded, results, stats, processed,
                   progress_queue, result, cancel_called, since_pause, cancel_woke,
                   gate_blocked>>
    /\ UNCHANGED <<max_workers, ctlVars, procVars, coVars, last_request_by, fnVars,
                   limVars, monVars>>
    /\ UNCHANGED <<platform, column, callback, storage>>

\* the rest of return_driver: the clearing steps (their exceptions are
\* passed over) and self.available_drivers.put(driver)
return_driver_put(w) ==
    /\ wpc[w] = "returning"
    /\ storage' = [storage EXCEPT ![driver[w]] = {}]
    /\ available_drivers' = Append(available_drivers, driver[w])
    /\ driver' = [driver EXCEPT ![w] = NoDriver]
    /\ wpc' = [wpc EXCEPT ![w] = "update"]
    /\ UNCHANGED <<urls, all_drivers, cancel_flag, resume_event, batch_processor,
                   is_processing, gui, main, work_queue, wtask, wstatus, wsnap, future,
                   yielded, results, stats, processed, progress_queue, result,
                   cancel_called, since_pause, cancel_woke, gate_blocked>>
    /\ UNCHANGED <<max_workers, ctlVars, procVars, coVars, last_request_by, fnVars,
                   limVars, monVars>>
    /\ UNCHANGED <<platform, column, callback, werror>>

NextReturn ==
    \/ NextTeardown
    \/ \E w \in Workers : return_driver_test(w)
    \/ \E w \in Workers : return_driver_put(w)

SpecReturn == Init /\ [][NextReturn]_vars

\* ------------------------------------------------------------------------
\* SpecLimiter: the executor workers calling _apply_rate_limit of the run's
\* scraper, one call per URL check, while the clock runs.  A step is one read
\* or write of last_request_time or of the clock.

\* check_url_status calls self._apply_rate_limit()
rate_limit_call(w) ==
    /\ throttle[w].at = "out"
    /\ throttle' = [throttle EXCEPT ![w].at = "current_time"]
    /\ UNCHANGED <<now, last_request_time>>
    /\ UNCHANGED <<max_workers, runVars, ctlVars, ioVars, procVars, coVars,
                   last_request_by, fnVars, monVars>>

\* current_time = time.time()
rate_limit_current_time(w) ==
    /\ throttle[w].at = "current_time"
    /\ throttle' = [throttle EXCEPT ![w].at = "time_since_last",
                                    ![w].current_time = now]
    /\ UNCHANGED <<now, last_request_time>>
    /\ UNCHANGED <<max_workers, runVars, ctlVars, ioVars, procVars, coVars,
                   last_request_by, fnVars, monVars>>

\* time_since_last = current_time - self.last_request_time; delay =
\* random.uniform(min_delay, max_delay); if time_since_last < delay:
\* time.sleep(delay - time_since_last) begins
rate_limit_delay(w, delay) ==
    /\ throttle[w].at = "time_since_last"
    /\ LET time_since_last == throttle[w].current_time - last_request_time
       IN throttle' = [throttle EXCEPT
                ![w].delay = delay,
                ![w].at = IF time_since_last < delay THEN "sleep" ELSE "last_line",
                ![w].sleep_until = IF time_since_last < delay
                                   THEN now + (delay - time_since_last) ELSE 0]
    /\ UNCHANGED <<now, last_request_time>>
    /\ UNCHANGED <<max_workers, runVars, ctlVars, ioVars, procVars, coVars,
                   last_request_by, fnVars, monVars>>

\* time.sleep returns, sleep_time or more after it began
rate_limit_sleep_return(w) ==
    /\ throttle[w].at = "sleep"
    /\ now >= throttle[w].sleep_until
    /\ throttle' = [throttle EXCEPT ![w].at = "last_line", ![w].sleep_until = 0]
    /\ UNCHANGED <<now, last_request_time>>
    /\ UNCHANGED <<max_workers, runVars, ctlVars, ioVars, procVars, coVars,
                   last_request_by, fnVars, monVars>>

\* self.last_request_time = time.time(): the call of time.time()
rate_limit_time(w) ==
    /\ throttle[w].at = "last_line"
    /\ throttle' = [throttle EXCEPT ![w].at = "store", ![w].stamp = now]
    /\ UNCHANGED <<now, last_request_time>>
    /\ UNCHANGED <<max_workers, runVars, ctlVars, ioVars, procVars, coVars,
                   last_request_by, fnVars, monVars>>

\* self.last_request_time = time.time(): the store, and the return
rate_limit_store(w) ==
    /\ throttle[w].at = "store"
    /\ last_request_time' = throttle[w].stamp
    /\ throttle' = [throttle EXCEPT ![w] =
                        [NoCall EXCEPT !.ended = throttle[w].stamp]]
    /\ UNCHANGED now
    /\ UNCHANGED <<max_workers, runVars, ctlVars, ioVars, procVars, coVars,
                   last_request_by, fnVars, monVars>>

\* the clock moves on
tick ==
    /\ now < MaxTime
    /\ now' = now + 1
    /\ UNCHANGED <<last_request_time, throttle>>
    /\ UNCHANGED <<max_workers, runVars, ctlVars, ioVars, procVars, coVars,
                   last_request_by, fnVars, monVars>>

ThrottleStep(w) ==
    \/ rate_limit_call(w)
    \/ rate_limit_current_time(w)
    \/ \E delay \in min_delay..max_delay : rate_limit_delay(w, delay)
    \/ rate_limit_sleep_return(w)
    \/ rate_limit_time(w)
    \/ rate_limit_store(w)

NextLimiter ==
    \/ \E w \in ActiveWorkers : ThrottleStep(w)
    \/ tick

SpecLimiter == Init /\ [][NextLimiter]_vars

\* ------------------------------------------------------------------------
\* SpecMonitor: a run together with its progress monitor thread

\* the arguments _monitor_progress_thread passes to on_progress_update, and
\* the parameters of ProcessingCoordinator._handle_progress, which the
\* coordinator registered as the controller's on_progress_update
ForwardArgs == <<"stats", "total", "current", "current_action">>
HandleProgressParams == <<"current_stats", "total_count", "processed_count">>

\* the call self.on_progress_update(...): Python binds positional arguments
\* to parameters one to one and raises TypeError when their numbers differ;
\* _handle_progress passes what it got to the UI's callback.  The value is
\* what the UI's callback has seen last.
handle_progress(seen, snap) ==
    IF Len(ForwardArgs) = Len(HandleProgressParams) THEN snap ELSE seen

\* `while self.monitor_progress and self.batch_processor:` is passed and
\* get_progress_updates entered
monitor_enter ==
    /\ mon = "check"
    /\ monitor_progress /\ batch_processor # 0
    /\ mon' = "drain"
    /\ updates' = <<>>
    /\ UNCHANGED <<monitor_progress, returned, enqueued, ui_progress>>
    /\ UNCHANGED <<max_workers, runVars, ctlVars, ioVars, procVars, coVars,
                   last_request_by, fnVars, limVars>>

\* variant: the loop keeps the newest pending snapshot only
get_nowait_newest ==
    /\ mon = "drain"
    /\ progress_queue # <<>>
    /\ updates' = Append(updates, progress_queue[Len(progress_queue)])
    /\ progress_queue' = <<>>
    /\ UNCHANGED <<monitor_progress, mon, returned, enqueued, ui_progress>>
    /\ UNCHANGED <<urls, all_drivers, available_drivers, cancel_flag, resume_event,
                   batch_processor, is_processing, gui, main, work_queue, wpc, wtask,
                   driver, wstatus, wsnap, future, yielded, results, stats, processed,
                   result, cancel_called, cancel_woke, gate_blocked, since_pause>>
    /\ UNCHANGED <<max_workers, ctlVars, ioVars, procVars, coVars, last_request_by,
                   fnVars, limVars>>

\* one turn of the loop of get_progress_updates: the queue is not empty,
\* get_nowait takes its head
get_nowait ==
    /\ mon = "drain"
    /\ progress_queue # <<>>
    /\ updates' = Append(updates, Head(progress_queue))
    /\ progress_queue' = Tail(progress_queue)
    /\ UNCHANGED <<monitor_progress, mon, returned, enqueued, ui_progress>>
    /\ UNCHANGED <<urls, all_drivers, available_drivers, cancel_flag, resume_event,
                   batch_processor, is_processing, gui, main, work_queue, wpc, wtask,
                   driver, wstatus, wsnap, future, yielded, results, stats, processed,
                   result, cancel_called, cancel_woke, gate_blocked, since_pause>>
    /\ UNCHANGED <<max_workers, ctlVars, ioVars, procVars, coVars, last_request_by,
                   fnVars, limVars>>

\* get_progress_updates finds the queue empty and returns `updates`; the
\* monitor forwards updates[-1] to on_progress_update when the list is not
\* empty (an exception of that call is caught, printed, and the list dropped)
\* and sleeps
get_progress_updates_return ==
    /\ mon = "drain"
    /\ progress_queue = <<>>
    /\ returned' = returned \o updates
    /\ ui_progress' = IF updates # <<>>
                      THEN handle_progress(ui_progress, updates[Len(updates)])
                      ELSE ui_progress
    /\ updates' = <<>>
    /\ mon' = "check"
    /\ UNCHANGED <<monitor_progress, enqueued>>
    /\ UNCHANGED <<max_workers, runVars, ctlVars, ioVars, procVars, coVars,
                   last_request_by, fnVars, limVars>>

MonitorStep ==
    \/ monitor_enter
    \/ get_nowait
    \/ get_progress_updates_return

NextMonitor ==
    \/ /\ main = "none"
       /\ \E us \in FeedLists, created \in 0..pool_size :
                start_processing(us, created, "youtube", "post")
    \/ cancel_processing
    \/ cancel_join_return
    \/ MainStep
    \/ \E w \in Workers : WorkerStep(w)
    \/ MonitorStep

SpecMonitor == Init /\ [][NextMonitor]_vars

\* ------------------------------------------------------------------------
\* SpecClassify: check_url_status on every page

\* the try block of check_url_status on a page whose driver was obtained: the
\* except clause gives Error; the marker checks return at the first match;
\* the inner try / except: pass covers find_elements and the read of .text
\* (status is assigned after .text), and falls through to Live
check_page(p) ==
    IF p.fails = "load" THEN "Error"
    ELSE IF \E k \in 1..Len(Markers) : Markers[k] \in p.markers
    THEN MarkerStatus[CHOOSE k \in 1..Len(Markers) :
                        /\ Markers[k] \in p.markers
                        /\ \A j \in 1..(k - 1) : Markers[j] \notin p.markers]
    ELSE IF p.fails = "find" THEN "Live"
    ELSE IF p.warning /\ p.fails # "text" THEN "Restricted"
    ELSE "Live"

InitClassify ==
    /\ InitRun
    /\ page \in Pages
    /\ verdict = ""
    /\ rows = <<>>
    /\ scraping_results = <<>>
    /\ joined_df = <<>>
    /\ final = NoFinal

check_url_status ==
    /\ verdict = ""
    /\ verdict' = check_page(page)
    /\ UNCHANGED <<max_workers, runVars, ctlVars, ioVars, procVars, coVars,
                   last_request_by, page, rows, scraping_results, joined_df, final,
                   monVars, limVars>>

SpecClassify == InitClassify /\ [][check_url_status]_vars

\* ------------------------------------------------------------------------
\* SpecJoin: steps 6 and 7 of process_csv on every table and result list

\* the result a check of URL u may return: the status of its page, or Error
\* (get_driver timed out, or the navigation raised)
ResultDicts == {r \in [url : URLS, status : Statuses] :
                    r.status \in {PageStatus(r.url), "Error"}}

\* the k-th result of the list carries timestamp k
Stamped(rs) ==
    [k \in 1..Len(rs) |-> [url |-> rs[k].url, status |-> rs[k].status, timestamp |-> k]]

\* variant: row i takes the i-th result
update_results_by_position(col, rs) ==
    [i \in 1..Len(col) |->
        IF i <= Len(rs) THEN [status |-> rs[i].status, timestamp |-> rs[i].timestamp]
        ELSE NoRow]

\* CSVHandler.update_results: url_to_result = {result['url']: result for
\* result in results} keeps the last result of each URL; a row whose URL is a
\* key takes that result's columns, any other row is left as it is
update_results_df(col, rs) ==
    [i \in 1..Len(col) |->
        LET hits == {k \in 1..Len(rs) : rs[k].url = col[i]}
        IN IF hits = {} THEN NoRow
           ELSE LET last == CHOOSE k \in hits : \A j \in hits : j <= k
                IN [status |-> rs[last].status, timestamp |-> rs[last].timestamp]]

InitJoin ==
    /\ InitRun
    /\ page = NoPage
    /\ verdict = ""
    /\ rows \in {s \in SeqsUpTo(URLS \cup {""}, MaxUrls) : Len(s) > 0}
    /\ scraping_results \in {Stamped(rs) : rs \in SeqsUpTo(ResultDicts, MaxUrls)}
    /\ joined_df = <<>>
    /\ final = NoFinal

\* process_csv after _process_batch, not cancelled: update_results, the final
\* stats from df['status'].value_counts(), processed_count = len(scraping_results)
process_csv_update ==
    /\ joined_df = <<>>
    /\ joined_df' = update_results_df(rows, scraping_results)
    /\ final' = [stats |-> FinalStats([i \in 1..Len(rows) |-> joined_df'[i].status]),
                 processed_count |-> Len(scraping_results)]
    /\ UNCHANGED <<max_workers, runVars, ctlVars, ioVars, procVars, coVars,
                   last_request_by, page, verdict, rows, scraping_results, monVars,
                   limVars>>

SpecJoin == InitJoin /\ [][process_csv_update]_vars

\* ------------------------------------------------------------------------
\* SpecCtl: successive runs on one ProcessingController.  Each run has its own
\* BatchProcessor (start_processing builds a new one) and its own background
\* thread; what the workers of a run do is left out, so process_csv may return
\* at any moment after it was entered.

\* ProcessingController.start_processing, accepted: run r is the next one
ctl_start_processing(r) ==
    /\ gui = "idle"
    /\ thread[r] = "none"
    /\ \A q \in Runs : q < r => thread[q] # "none"
    /\ ~is_processing
    /\ is_processing' = TRUE
    /\ batch_processor' = r
    /\ cancel_flags' = [cancel_flags EXCEPT ![r] = FALSE]
    /\ resume_events' = [resume_events EXCEPT ![r] = TRUE]
    /\ thread' = [thread EXCEPT ![r] = "spawned"]
    /\ UNCHANGED gui
    /\ UNCHANGED <<max_workers, batchVars, ioVars, procVars, coVars, last_request_by, fnVars, limVars>>
    /\ UNCHANGED <<mon, updates, returned, enqueued, ui_progress>>
    /\ monitor_progress' = TRUE

\* ProcessingController.pause_processing
ctl_pause_processing ==
    /\ gui = "idle"
    /\ batch_processor # 0 /\ is_processing
    /\ resume_events' = [resume_events EXCEPT ![batch_processor] = FALSE]
    /\ UNCHANGED <<is_processing, batch_processor, gui, thread, cancel_flags>>
    /\ UNCHANGED <<max_workers, batchVars, ioVars, procVars, coVars, last_request_by, fnVars, limVars, monVars>>

\* ProcessingController.resume_processing
ctl_resume_processing ==
    /\ gui = "idle"
    /\ batch_processor # 0 /\ is_processing
    /\ resume_events' = [resume_events EXCEPT ![batch_processor] = TRUE]
    /\ UNCHANGED <<is_processing, batch_processor, gui, thread, cancel_flags>>
    /\ UNCHANGED <<max_workers, batchVars, ioVars, procVars, coVars, last_request_by, fnVars, limVars, monVars>>

\* ProcessingController.cancel_processing up to the join
ctl_cancel_processing ==
    /\ gui = "idle"
    /\ batch_processor # 0
    /\ cancel_flags' = [cancel_flags EXCEPT ![batch_processor] = TRUE]
    /\ resume_events' = [resume_events EXCEPT ![batch_processor] = TRUE]
    /\ gui' = "joining"
    /\ UNCHANGED <<is_processing, batch_processor, thread>>
    /\ UNCHANGED <<max_workers, batchVars, ioVars, procVars, coVars, last_request_by, fnVars, limVars>>
    /\ UNCHANGED <<mon, updates, returned, enqueued, ui_progress>>
    /\ monitor_progress' = FALSE

\* _process_urls_thread enters process_csv, which clears the cancel flag
thread_process_csv_begin(r) ==
    /\ thread[r] = "spawned"
    /\ cancel_flags' = [cancel_flags EXCEPT ![r] = FALSE]
    /\ thread' = [thread EXCEPT ![r] = "process_csv"]
    /\ UNCHANGED <<is_processing, batch_processor, gui, resume_events>>
    /\ UNCHANGED <<max_workers, batchVars, ioVars, procVars, coVars, last_request_by, fnVars, limVars, monVars>>

\* process_csv returns to _process_urls_thread
thread_process_csv_return(r) ==
    /\ thread[r] = "process_csv"
    /\ thread' = [thread EXCEPT ![r] = "returned"]
    /\ UNCHANGED <<is_processing, batch_processor, gui, cancel_flags, resume_events>>
    /\ UNCHANGED <<max_workers, batchVars, ioVars, procVars, coVars, last_request_by, fnVars, limVars, monVars>>

\* the finally block of _process_urls_thread
thread_finally(r) ==
    /\ thread[r] = "returned"
    /\ is_processing' = FALSE
    /\ thread' = [thread EXCEPT ![r] = "dead"]
    /\ UNCHANGED <<batch_processor, gui, cancel_flags, resume_events>>
    /\ UNCHANGED <<max_workers, batchVars, ioVars, procVars, coVars, last_request_by, fnVars, limVars>>
    /\ UNCHANGED <<mon, updates, returned, enqueued, ui_progress>>
    /\ monitor_progress' = FALSE

NextCtl ==
    \/ \E r \in Runs : ctl_start_processing(r)
    \/ ctl_pause_processing
    \/ ctl_resume_processing
    \/ ctl_cancel_processing
    \/ cancel_join_return
    \/ \E r \in Runs : thread_process_csv_begin(r)
    \/ \E r \in Runs : thread_process_csv_return(r)
    \/ \E r \in Runs : thread_finally(r)

SpecCtl == Init /\ [][NextCtl]_vars

\* ------------------------------------------------------------------------
\* SpecCoord: the ProcessingCoordinator in front of the ProcessingController of
\* SpecCtl.  The coordinator registers _handle_completion and _handle_error
\* as the controller's callbacks.

\* ProcessingCoordinator.start_processing; the controller's start_processing
\* raises RuntimeError when its own is_processing is still set
coordinator_start_processing(r) ==
    /\ gui = "idle"
    /\ thread[r] = "none"
    /\ \A q \in Runs : q < r => thread[q] # "none"
    /\ last_op' = "start"
    /\ calls' = 1 - calls
    /\ IF co_is_processing
       THEN /\ forwarded' = FALSE
            /\ UNCHANGED <<co_is_processing, co_is_paused, is_processing,
                           batch_processor, cancel_flags, resume_events, thread>>
       ELSE /\ co_is_processing' = TRUE
            /\ co_is_paused' = FALSE
            /\ forwarded' = TRUE
            /\ IF is_processing
               THEN UNCHANGED <<is_processing, batch_processor, cancel_flags,
                                resume_events, thread>>
               ELSE /\ is_processing' = TRUE
                    /\ batch_processor' = r
                    /\ cancel_flags' = [cancel_flags EXCEPT ![r] = FALSE]
                    /\ resume_events' = [resume_events EXCEPT ![r] = TRUE]
                    /\ thread' = [thread EXCEPT ![r] = "spawned"]
    /\ UNCHANGED gui
    /\ UNCHANGED <<max_workers, batchVars, ioVars, procVars, last_request_by, fnVars, limVars>>
    /\ UNCHANGED <<mon, updates, returned, enqueued, ui_progress>>
    /\ monitor_progress' = (IF ~co_is_processing /\ ~is_processing THEN TRUE
                         ELSE monitor_progress)

\* variant: pause_processing does not look at is_paused
coordinator_pause_processing_again ==
    /\ gui = "idle"
    /\ last_op' = "pause"
    /\ calls' = 1 - calls
    /\ IF co_is_processing
       THEN /\ co_is_paused' = TRUE
            /\ forwarded' = TRUE
            /\ resume_events' = IF batch_processor # 0 /\ is_processing
                                THEN [resume_events EXCEPT ![batch_processor] = FALSE]
                                ELSE resume_events
       ELSE /\ forwarded' = FALSE
            /\ UNCHANGED <<co_is_paused, resume_events>>
    /\ UNCHANGED <<co_is_processing, is_processing, batch_processor, gui, thread,
                   cancel_flags>>
    /\ UNCHANGED <<max_workers, batchVars, ioVars, procVars, last_request_by, fnVars, limVars, monVars>>

\* ProcessingCoordinator.pause_processing -> ProcessingController.pause_processing
coordinator_pause_processing ==
    /\ gui = "idle"
    /\ last_op' = "pause"
    /\ calls' = 1 - calls
    /\ IF co_is_processing /\ ~co_is_paused
       THEN /\ co_is_paused' = TRUE
            /\ forwarded' = TRUE
            /\ resume_events' = IF batch_processor # 0 /\ is_processing
                                THEN [resume_events EXCEPT ![batch_processor] = FALSE]
                                ELSE resume_events
       ELSE /\ forwarded' = FALSE
            /\ UNCHANGED <<co_is_paused, resume_events>>
    /\ UNCHANGED <<co_is_processing, is_processing, batch_processor, gui, thread,
                   cancel_flags>>
    /\ UNCHANGED <<max_workers, batchVars, ioVars, procVars, last_request_by, fnVars, limVars, monVars>>

\* ProcessingCoordinator.resume_processing -> ProcessingController.resume_processing
coordinator_resume_processing ==
    /\ gui = "idle"
    /\ last_op' = "resume"
    /\ calls' = 1 - calls
    /\ IF co_is_processing /\ co_is_paused
       THEN /\ co_is_paused' = FALSE
            /\ forwarded' = TRUE
            /\ resume_events' = IF batch_processor # 0 /\ is_processing
                                THEN [resume_events EXCEPT ![batch_processor] = TRUE]
                                ELSE resume_events
       ELSE /\ forwarded' = FALSE
            /\ UNCHANGED <<co_is_paused, resume_events>>
    /\ UNCHANGED <<co_is_processing, is_processing, batch_processor, gui, thread,
                   cancel_flags>>
    /\ UNCHANGED <<max_workers, batchVars, ioVars, procVars, last_request_by, fnVars, limVars, monVars>>

\* ProcessingCoordinator.cancel_processing: nothing when idle, else
\* ProcessingController.cancel_processing up to the join
coordinator_cancel_processing ==
    /\ gui = "idle"
    /\ last_op' = "cancel"
    /\ IF co_is_processing
       THEN /\ forwarded' = TRUE
            /\ IF batch_processor # 0
               THEN /\ cancel_flags' = [cancel_flags EXCEPT ![batch_processor] = TRUE]
                    /\ resume_events' = [resume_events EXCEPT ![batch_processor] = TRUE]
               ELSE UNCHANGED <<cancel_flags, resume_events>>
            /\ gui' = "joining"
            /\ UNCHANGED calls
       ELSE /\ forwarded' = FALSE
            /\ calls' = 1 - calls
            /\ UNCHANGED <<cancel_flags, resume_events, gui>>
    /\ UNCHANGED <<co_is_processing, co_is_paused, is_processing, batch_processor, thread>>
    /\ UNCHANGED <<max_workers, batchVars, ioVars, procVars, last_request_by, fnVars, limVars>>
    /\ UNCHANGED <<mon, updates, returned, enqueued, ui_progress>>
    /\ monitor_progress' = (IF co_is_processing THEN FALSE ELSE monitor_progress)

\* the join of ProcessingController.cancel_processing returns, is_processing =
\* False, and the coordinator's _reset_state
coordinator_cancel_return ==
    /\ gui = "joining"
    /\ is_processing' = FALSE
    /\ co_is_processing' = FALSE
    /\ co_is_paused' = FALSE
    /\ calls' = 1 - calls
    /\ gui' = "idle"
    /\ UNCHANGED <<batch_processor, thread, cancel_flags, resume_events, last_op, forwarded>>
    /\ UNCHANGED <<max_workers, batchVars, ioVars, procVars, last_request_by, fnVars, limVars, monVars>>

\* variant: _reset_state clears is_processing and leaves is_paused
thread_callback_keeps_pause(r) ==
    /\ thread[r] = "returned"
    /\ co_is_processing' = FALSE
    /\ thread' = [thread EXCEPT ![r] = "notified"]
    /\ UNCHANGED <<is_processing, batch_processor, gui, cancel_flags, resume_events,
                   co_is_paused, last_op, forwarded, calls>>
    /\ UNCHANGED <<max_workers, batchVars, ioVars, procVars, last_request_by, fnVars,
                   limVars, monVars>>

\* _process_urls_thread calls on_processing_complete or on_processing_error:
\* the coordinator's _handle_completion / _handle_error, both _reset_state
thread_callback(r) ==
    /\ thread[r] = "returned"
    /\ co_is_processing' = FALSE
    /\ co_is_paused' = FALSE
    /\ thread' = [thread EXCEPT ![r] = "notified"]
    /\ UNCHANGED <<is_processing, batch_processor, gui, cancel_flags, resume_events,
                   last_op, forwarded, calls>>
    /\ UNCHANGED <<max_workers, batchVars, ioVars, procVars, last_request_by, fnVars, limVars, monVars>>

\* the finally block of _process_urls_thread, after the callback
thread_finally_notified(r) ==
    /\ thread[r] = "notified"
    /\ is_processing' = FALSE
    /\ thread' = [thread EXCEPT ![r] = "dead"]
    /\ UNCHANGED <<batch_processor, gui, cancel_flags, resume_events>>
    /\ UNCHANGED <<max_workers, batchVars, ioVars, procVars, coVars, last_request_by, fnVars, limVars>>
    /\ UNCHANGED <<mon, updates, returned, enqueued, ui_progress>>
    /\ monitor_progress' = FALSE

NextCoord ==
    \/ \E r \in Runs : coordinator_start_processing(r)
    \/ coordinator_pause_processing
    \/ coordinator_resume_processing
    \/ coordinator_cancel_processing
    \/ coordinator_cancel_return
    \/ \E r \in Runs : thread_process_csv_begin(r)
    \/ \E r \in Runs : thread_process_csv_return(r)
    \/ \E r \in Runs : thread_callback(r)
    \/ \E r \in Runs : thread_finally_notified(r)

SpecCoord == Init /\ [][NextCoord]_vars

\* ------------------------------------------------------------------------
\* Properties

OnLoan == {w \in Workers : driver[w] # NoDriver}
Done == main \in {"returned", "raised", "dead"}

\* C1: once the pool is built, the sessions in the available queue plus the
\* sessions on loan to workers number pool_size.
PoolConservation ==
    batch_processor # 0 => Len(available_drivers) + Cardinality(OnLoan) = pool_size

\* C2: a session is in the available queue or held by exactly one worker:
\* never held by two workers, never both queued and on loan, never queued twice.
SessionExclusive ==
    /\ \A w1, w2 \in Workers : (w1 # w2 /\ driver[w1] # NoDriver) => driver[w1] # driver[w2]
    /\ \A k \in 1..Len(available_drivers) : \A w \in Workers : driver[w] # available_drivers[k]
    /\ \A j, k \in 1..Len(available_drivers) : j # k => available_drivers[j] # available_drivers[k]
    /\ \A w \in Workers : driver[w] # NoDriver => driver[w] \in all_drivers

\* every worker of a full-size executor holds a session
SessionsAllOnLoan ==
    /\ max_workers = MaxWorkers
    /\ \A w \in Workers : driver[w] # NoDriver

\* C3: at most one background thread is inside process_csv at a time.
OneJobAtATime == Cardinality({r \in Runs : thread[r] = "process_csv"}) <= 1

\* C4: once the cancel flag is set, no worker acquires a session for a new
\* URL check.
NoCheckBeginsAfterCancel ==
    [][cancel_flag => \A w \in Workers : ~(wpc[w] = "acquire" /\ wpc'[w] = "navigate")]_vars

\* C5: a worker blocked on the pause gate stays there until the flag is set
\* again, and while the pause lasts at most max_workers URL checks complete.
PauseGateBound ==
    /\ [](~resume_event => since_pause <= max_workers)
    /\ [][\A w \in Workers : (wpc[w] = "waiting" /\ wpc'[w] # "waiting") => resume_event']_vars

\* the pause holds back a worker after max_workers checks completed under it
PauseHoldsWorker ==
    /\ ~resume_event
    /\ since_pause = max_workers
    /\ \E w \in Workers : wpc[w] = "waiting"

\* the result each task must end with: its own URL, and the status of that
\* URL's page, or Error when the pool was short and get_driver timed out
ResultOf(i, full) ==
    {r \in [task : {i}, url : {urls[i]}, status : Statuses] :
        \/ r.status = PageStatus(urls[i])
        \/ ~full /\ r.status = "Error"}

OneResultPerUrl ==
    /\ Len(results) = Len(urls)
    /\ \A i \in 1..Len(urls) :
        \E k \in 1..Len(results) :
            /\ results[k] \in ResultOf(i, Cardinality(all_drivers) = pool_size)
            /\ \A j \in 1..Len(results) : results[j].task = i => j = k

\* C6: cancel() leaves no worker blocked on the pause gate, and the run
\* (process_csv) eventually returns.  cancel_called and Done, once true, stay
\* true (second conjunct), so "again and again: not cancelled, or returned"
\* says that every cancel is followed by the return of the run.
CancelReleasesRun ==
    /\ [](cancel_called => \A w \in Workers : wpc[w] # "waiting")
    /\ [][(cancel_called => cancel_called') /\ (Done => Done')]_vars
    /\ []<>(~cancel_called \/ Done)

\* a cancel released a blocked worker and the run has returned
CancelReleasedWorker == cancel_woke /\ Done

Completed == Done /\ result.success

\* C7: resume() leaves no worker blocked on the pause gate, and a run that was
\* paused and resumed ends as completed unless it is paused again or cancelled.
\* gate_blocked, once true, stays true (second conjunct), so a run in which a
\* worker had blocked and which is neither paused nor cancelled can leave that
\* condition only by a pause or a cancel: "again and again: no worker has
\* blocked, or paused, or cancelled, or completed" says that such a run goes
\* on to completion unless it is paused again or cancelled.
ResumeCompletesRun ==
    /\ [](resume_event => \A w \in Workers : wpc[w] # "waiting")
    /\ [][gate_blocked => gate_blocked']_vars
    /\ []<>(~gate_blocked \/ ~resume_event \/ cancel_called \/ Completed)

\* the thread of a run in which a worker had blocked on the gate has ended,
\* the run completed
ResumedRunCompleted ==
    /\ main = "dead" /\ result.success
    /\ gate_blocked /\ resume_event /\ ~cancel_called

\* C8: a run that was not cancelled ends with processed_count = len(urls) and
\* exactly one result per submitted URL.
EveryUrlHasOneResult ==
    (Done /\ ~cancel_called) =>
        /\ result.success
        /\ result.processed_count = Len(urls)
        /\ OneResultPerUrl

\* a full-length run is over and its first result is not the first URL's
FinishedOutOfOrder ==
    /\ Done /\ result.success
    /\ Len(urls) = MaxUrls
    /\ results[1].task # 1

BucketSum(st) == st.live + st.removed + st.restricted + st.errors

\* C9: in every published snapshot the four buckets sum to `current`, and
\* `current` does not exceed `total`.
SnapshotsConsistent ==
    \A k \in 1..Len(progress_queue) :
        /\ BucketSum(progress_queue[k].stats) = progress_queue[k].current
        /\ progress_queue[k].current <= progress_queue[k].total
        /\ progress_queue[k].current >= 1

\* every URL of a full-length run has its snapshot, the last one counts URLs
\* in more than one bucket
SnapshotsOfMixedRun ==
    /\ Len(progress_queue) = MaxUrls
    /\ \E k \in 1..Len(progress_queue) :
        /\ progress_queue[k].current = MaxUrls
        /\ progress_queue[k].stats.removed >= 1
        /\ progress_queue[k].stats.removed < MaxUrls

\* C10: a run that was paused and resumed, and not cancelled, ends with the
\* results of the unpaused run: one result per URL, nothing dropped or doubled.
PauseKeepsResults ==
    (Done /\ gate_blocked /\ ~cancel_called) =>
        /\ result.success
        /\ result.processed_count = Len(urls)
        /\ processed = Len(urls)
        /\ OneResultPerUrl

\* a full-length run in which a worker had blocked on the gate has completed
PausedRunCompleted ==
    /\ Done /\ gate_blocked /\ ~cancel_called
    /\ Len(urls) = MaxUrls
    /\ result.success

\* C11: a run ends as completed exactly when every URL was processed and no
\* cancel() was issued while it ran; a cancel() issued after start_processing
\* returned and before process_csv ended makes the run end without success.
CancelNeverLost ==
    /\ [](Completed => (processed = Len(urls) /\ Len(results) = Len(urls)))
    /\ []((Done /\ ~cancel_called /\ SetupOutcome(platform, column, urls) = "ok")
            => result.success)
    /\ []((cancel_called /\ ~Done) => [](Done => ~result.success))

\* C12: when cancel() was called, the result returned has processed_count <=
\* len(urls), and a row of its table carries a status only if a check of that
\* row's URL was carried out and gave that status.
TableOnlyClassified ==
    (Done /\ cancel_called) =>
        /\ result.processed_count <= Len(urls)
        /\ \A i \in 1..Len(result.dataframe) :
              result.dataframe[i] # "" =>
                \E j \in 1..Len(future) :
                    /\ urls[j] = urls[i]
                    /\ future[j] \in Statuses
                    /\ future[j] = result.dataframe[i]

\* a cancelled run has returned, one URL checked and one given up
CancelledPartway ==
    /\ Done /\ cancel_called
    /\ result.error_message = Cancelled
    /\ \E i, j \in 1..Len(future) : future[i] = None /\ future[j] \in Statuses

\* the checks that have begun and are not yet counted in `processed`
InFlight == {w \in Workers : wpc[w] \in {"gate", "waiting", "acquire", "navigate", "update"}}

\* C13: the processed_count a cancelled run reports is at least the number of
\* URL checks completed when the cancel was pending, and at most that number
\* plus the checks then in flight.
CancelledCountCoversFinished ==
    \A n \in 0..MaxUrls, k \in 0..MaxWorkers :
        []((cancel_flag /\ ~Done /\ processed = n /\ Cardinality(InFlight) = k)
            => [](Done => (result.processed_count >= n /\ result.processed_count <= n + k)))

\* the sessions of the pool that exist: those in the queue and those on loan
Sessions == {available_drivers[k] : k \in 1..Len(available_drivers)}
                \cup {driver[w] : w \in OnLoan}

\* C14: the pool never holds more than pool_size sessions and no session is
\* created after the pool was built; a get_driver call that finds the queue
\* empty stays blocked until a session is returned or ends in the timeout
\* error, with no session in hand.
PoolNeverGrows ==
    /\ [](Cardinality(all_drivers) <= pool_size /\ Sessions \subseteq all_drivers)
    /\ [][main # "none" => all_drivers' = all_drivers]_vars
    /\ [][\A w \in Workers :
            (wpc[w] = "acquire" /\ available_drivers = <<>> /\ wpc'[w] # "acquire")
                => /\ wpc'[w] = "update"
                   /\ wstatus'[w] = "Error"
                   /\ werror'[w] = PoolTimeout
                   /\ driver'[w] = NoDriver]_vars

\* a get_driver call timed out while every session of the pool was on loan
TimedOutOnBusyPool ==
    \E w \in Workers :
        /\ wpc[w] = "update" /\ werror[w] = PoolTimeout
        /\ all_drivers # {}
        /\ Cardinality(OnLoan) = Cardinality(all_drivers)

\* C15: a session in the available queue carries no cookies and no storage of
\* an earlier URL check, and get_driver hands out clean sessions only, also
\* when a clearing step of return_driver raised.
SessionsReturnedClean ==
    /\ [](\A k \in 1..Len(available_drivers) : storage[available_drivers[k]] = {})
    /\ [][\A w \in Workers :
            (wpc[w] = "acquire" /\ wpc'[w] = "navigate") => storage[driver'[w]] = {}]_vars

ErrorsNotFatal ==
    (Done /\ ~cancel_called /\ SetupOutcome(platform, column, urls) = "ok") =>
        /\ result.success
        /\ result.processed_count = Len(urls)
        /\ \A i \in 1..Len(urls) :
              urls[i] = "u_broken" =>
                \E k \in 1..Len(results) : results[k].task = i /\ results[k].status = "Error"
        /\ stats.errors = Cardinality({k \in 1..Len(results) : results[k].status = "Error"})
        /\ stats.errors >= Cardinality({i \in 1..Len(urls) : urls[i] = "u_broken"})

\* a full-length run with an empty pool has completed, every URL an Error
AllErrorsRunCompleted ==
    /\ Done /\ ~cancel_called /\ result.success
    /\ all_drivers = {}
    /\ Len(urls) = MaxUrls
    /\ stats.errors = MaxUrls

\* C18: a run whose pool was built with fewer than pool_size sessions checks
\* no URL and ends without success.
ShortPoolFailsRun ==
    (batch_processor # 0 /\ Cardinality(all_drivers) < pool_size) =>
        /\ \A w \in Workers : wpc[w] = "idle"
        /\ processed = 0
        /\ Done => ~result.success

\* C19: process_csv for a platform without a scraper (the column mapping being
\* valid) submits no work, checks no URL and returns a result with
\* success = FALSE and the message "Unsupported platform: ..."; no exception
\* leaves process_csv, and the message reaches the error callback.
UnsupportedPlatformReported ==
    (batch_processor # 0 /\ validate_column_mapping(column)
            /\ create_scraper(platform) = None) =>
        /\ future = <<>> /\ work_queue = <<>>
        /\ \A w \in Workers : wpc[w] = "idle"
        /\ processed = 0
        /\ main # "raised"
        /\ main = "returned" =>
              (~result.success /\ result.error_message = UnsupportedPlatform)
        /\ main = "dead" => callback = UnsupportedPlatform

\* the URL column is mapped to a name the data frame lacks, is not mapped, or
\* holds no value
InvalidColumn == column \notin DfColumns \/ urls = <<>>

PoolTornDownAtReturn ==
    Done => \A d \in 1..MaxWorkers : browser[d] # "running"

\* C22: driver.quit() is called on every session of the pool exactly once,
\* however many times cleanup runs, and also on the sessions that come after
\* one whose quit() raised.
EverySessionQuitOnce ==
    /\ \A d \in 1..MaxWorkers : quits[d] <= 1
    /\ (gui \in {"closed", "exited"} /\ batch_processor # 0) =>
            \A d \in 1..MaxWorkers : browser[d] # "none" => quits[d] = 1

\* cleanup has run twice on a full pool; the quit() of the first session
\* raised and the last session is terminated
CleanupSurvivedFailure ==
    /\ gui = "exited"
    /\ quits[1] = 1 /\ browser[1] = "running"
    /\ quits[MaxWorkers] = 1 /\ browser[MaxWorkers] = "closed"

\* C30: driver.quit() is never called on a session that a worker holds for a
\* URL check in flight.
NoQuitOnLoan ==
    \A w \in Workers : driver[w] # NoDriver => quits[driver[w]] = 0

\* the ProcessingController state a ProcessingCoordinator call can reach
ControllerState == <<is_processing, batch_processor, thread, cancel_flags, resume_events>>

\* C23: a pause() on a coordinator that is idle or already paused, a resume()
\* on one that is idle or not paused, and a cancel() on an idle one leave
\* (is_processing, is_paused) and the controller as they were and do not call
\* the controller; and once any of the three has returned, the same call is
\* not applicable, so that calling it again changes nothing.
CoordinatorNoOps ==
    [][/\ (calls' # calls /\ gui = "idle" /\ last_op' = "pause"
                /\ ~(co_is_processing /\ ~co_is_paused))
            => (~forwarded' /\ UNCHANGED <<co_is_processing, co_is_paused, ControllerState>>)
       /\ (calls' # calls /\ gui = "idle" /\ last_op' = "resume"
                /\ ~(co_is_processing /\ co_is_paused))
            => (~forwarded' /\ UNCHANGED <<co_is_processing, co_is_paused, ControllerState>>)
       /\ (calls' # calls /\ gui = "idle" /\ last_op' = "cancel" /\ ~co_is_processing)
            => (~forwarded' /\ UNCHANGED <<co_is_processing, co_is_paused, ControllerState>>)
       /\ (calls' # calls /\ last_op' = "pause") => ~(co_is_processing' /\ ~co_is_paused')
       /\ (calls' # calls /\ last_op' = "resume") => ~(co_is_processing' /\ co_is_paused')
       /\ (calls' # calls /\ last_op' = "cancel") => ~co_is_processing'
      ]_vars

\* a pause() on a coordinator that was already paused has returned
PausedTwice ==
    /\ last_op = "pause" /\ ~forwarded
    /\ co_is_processing /\ co_is_paused

\* C24: the last-request time a worker's _apply_rate_limit call reads was
\* written by that worker (or is still the initial 0), never by another one.
LimiterPerWorker ==
    [][\A w \in Workers :
        (wpc[w] = "acquire" /\ wpc'[w] # "acquire") => last_request_by \in {0, w}]_vars

\* C25: the page is tested for removed, age-restricted, geo-blocked and
\* private in that order and gets the status of the first marker it carries;
\* an exception in the warning-element probe does not make the check fail;
\* and the status is Live exactly when the page carries no marker, the probe
\* came upon no warning element (the page has none, or find_elements raised
\* before it could return any), and nothing outside the probe raised.
ClassifierFirstMatch ==
    verdict # "" =>
        /\ \A k \in 1..Len(Markers) :
              (/\ page.fails # "load"
               /\ Markers[k] \in page.markers
               /\ \A j \in 1..(k - 1) : Markers[j] \notin page.markers)
                  => verdict = MarkerStatus[k]
        /\ page.fails \in {"find", "text"} => verdict # "Error"
        /\ (page.fails = "none" /\ page.markers = {} /\ page.warning)
                  => verdict = "Restricted"
        /\ verdict = "Live" <=>
              /\ page.markers = {}
              /\ ~page.warning \/ page.fails = "find"
              /\ page.fails # "load"

\* C26: after update_results every row whose URL has a result carries the
\* columns of one result produced for that URL, and every row whose URL has no
\* result keeps its empty result columns; the table keeps its rows.
JoinByUrl ==
    joined_df # <<>> =>
        /\ Len(joined_df) = Len(rows)
        /\ \A i \in 1..Len(rows) :
              IF \E k \in 1..Len(scraping_results) : scraping_results[k].url = rows[i]
              THEN \E k \in 1..Len(scraping_results) :
                      /\ scraping_results[k].url = rows[i]
                      /\ joined_df[i].status = scraping_results[k].status
                      /\ joined_df[i].timestamp = scraping_results[k].timestamp
              ELSE joined_df[i] = NoRow

\* the only result is the second row's: the first row, whose URL was never
\* reached, is left empty
JoinedOutOfPlace ==
    /\ Len(joined_df) = 2 /\ Len(scraping_results) = 1
    /\ rows[1] # "" /\ joined_df[1] = NoRow
    /\ joined_df[2].timestamp = 1 /\ joined_df[2].status = "Private"

\* the result list of a run that was not cancelled: one result for every
\* non-empty cell of the URL column, in any order
CompleteResultSet ==
    \A u \in URLS :
        Cardinality({k \in 1..Len(scraping_results) : scraping_results[k].url = u})
            = Cardinality({i \in 1..Len(rows) : rows[i] = u})

ResultsWith(S) ==
    Cardinality({k \in 1..Len(scraping_results) : scraping_results[k].status \in S})

\* C27: the final stats of a successful run count every collected result once,
\* in the bucket of its status, and the four buckets sum to processed_count,
\* also when the column holds a URL twice or has empty cells.
FinalStatsCountResults ==
    (joined_df # <<>> /\ CompleteResultSet) =>
        /\ final.processed_count = Len(scraping_results)
        /\ final.stats.live = ResultsWith({"Live"})
        /\ final.stats.removed =
                ResultsWith({"Removed", "Age-restricted", "Geo-blocked", "Private"})
        /\ final.stats.restricted = ResultsWith({"Restricted"})
        /\ final.stats.errors = ResultsWith({"Error"})
        /\ BucketSum(final.stats) = final.processed_count

\* C28: the snapshots get_progress_updates has returned, those it has taken
\* in the call under way and those still pending are, in this order, exactly
\* the snapshots enqueued, in the order they were enqueued; and a call that
\* finds the queue empty can return.
DrainKeepsOrder ==
    /\ returned \o updates \o progress_queue = enqueued
    /\ (mon = "drain" /\ progress_queue = <<>>) => ENABLED get_progress_updates_return

\* two calls have returned one snapshot each while the run went on
DrainedInTwoCalls ==
    /\ Len(returned) = 2 /\ updates = <<>> /\ mon = "check"
    /\ returned[1].current = 2 /\ returned[2].current = 1
    /\ ~Done

\* C29: when the monitor has drained at least one snapshot, the newest of
\* them reaches the progress callback of the UI.
LatestSnapshotDelivered ==
    [][returned' # returned => ui_progress' = updates[Len(updates)]]_vars

\* C31: a URL check passes the pause check, then the rate limiter, then takes
\* its session, then navigates: a worker at the pause gate, blocked on it, or
\* in the rate limiter holds no session, a session is taken only by a worker
\* that has passed the gate and, in the same step, the limiter, and a worker
\* comes to the limiter only from the gate.
PauseThenThrottleThenSession ==
    /\ [](\A w \in Workers :
            wpc[w] \in {"gate", "waiting", "acquire"} => driver[w] = NoDriver)
    /\ [][\A w \in Workers :
            (driver[w] = NoDriver /\ driver'[w] # NoDriver)
                => /\ wpc[w] = "acquire" /\ wpc'[w] = "navigate"
                   /\ last_request_by' = w]_vars
    /\ [][\A w \in Workers :
            (wpc[w] # "acquire" /\ wpc'[w] = "acquire")
                => wpc[w] \in {"gate", "waiting"}]_vars

\* a worker is blocked on the pause gate while another one checks a URL and
\* the rest of the pool is in the queue
PausedWorkerHoldsNothing ==
    \E w, v \in Workers :
        /\ wpc[w] = "waiting" /\ ~resume_event
        /\ wpc[v] = "navigate" /\ driver[v] # NoDriver
        /\ Len(available_drivers) = pool_size - 1
        /\ Len(available_drivers) >= 1

\* C32: when process_csv has returned, on completion and on cancellation
\* alike, no task is left in the executor and no worker is inside a task:
\* every submitted task has finished its check or returned None without
\* starting one, and from then on no URL is checked, no counter changes and
\* no snapshot is put on the progress queue.
WorkersEndBeforeReturn ==
    /\ [](Done => /\ work_queue = <<>>
                   /\ \A w \in Workers : wpc[w] = "idle" /\ driver[w] = NoDriver
                   /\ \A i \in 1..Len(future) : future[i] \in Statuses \cup {None})
    /\ [][Done => UNCHANGED <<wpc, future, processed, stats, progress_queue>>]_vars

\* a cancelled run has returned: one task had finished its check, another
\* returned without starting one
CancelledRunWoundUp ==
    /\ main = "returned" /\ cancel_flag
    /\ processed = 1 /\ Len(progress_queue) = 1
    /\ \E i \in 1..Len(future) : future[i] = None

\* C33: between the ends of two consecutive calls of _apply_rate_limit by one
\* worker (the times its last line took from the clock) at least the delay
\* sampled by the later call, hence at least min_delay, has passed, whatever
\* the other workers' calls do in between.
ThrottleKeepsWorkerGap ==
    [][\A w \in Workers :
        (throttle[w].at = "store" /\ throttle'[w].at = "out"
                /\ throttle[w].ended # NoTime)
            => /\ throttle[w].stamp - throttle[w].ended >= throttle[w].delay
               /\ throttle[w].stamp - throttle[w].ended >= min_delay]_vars

\* C34: the callback and the finally block of the thread of an earlier run
\* leave the controller's is_processing and monitor_progress and the
\* coordinator's state as they are while a run started later is active.
OldRunLeavesNewRunAlone ==
    [][\A r \in Runs :
        (/\ thread[r] \in {"returned", "notified"} /\ thread'[r] # thread[r]
         /\ batch_processor > r
         /\ thread[batch_processor] \in {"spawned", "process_csv"})
            => UNCHANGED <<is_processing, monitor_progress,
                           co_is_processing, co_is_paused>>]_vars

\* C35: whenever the coordinator's is_processing is set, the controller has a
\* run in progress (or is inside cancel_processing), or a background thread
\* has still to call the completion or error callback that resets the
\* coordinator.
CoordinatorTracksController ==
    co_is_processing =>
        \/ is_processing
        \/ gui = "joining"
        \/ \E r \in Runs : thread[r] \in {"spawned", "process_csv", "returned"}

QueueStaysEmptyAfterCleanup ==
    /\ [](gui \in {"closed", "exited"} => available_drivers = <<>>)
    /\ [][\A w \in Workers :
            (driver[w] = NoDriver /\ driver'[w] # NoDriver)
                => browser[driver'[w]] # "closed"]_vars

\* C37: the snapshots are put on the progress queue in non-decreasing order
\* of `current`, so the last snapshot of every drained list is the most
\* advanced of the list.
SnapshotsEnqueuedInOrder ==
    /\ \A j, k \in 1..Len(enqueued) :
            j < k => enqueued[j].current <= enqueued[k].current
    /\ \A k \in 1..Len(updates) : updates[k].current <= updates[Len(updates)].current

\* C38: when process_csv has returned (no pool cleanup having run), no worker
\* holds a session and the available queue holds every session of the pool
\* once, whatever the checks ended with.
SessionsAllReturned ==
    (Done /\ batch_processor # 0) =>
        /\ \A w \in Workers : driver[w] = NoDriver
        /\ {available_drivers[k] : k \in 1..Len(available_drivers)} = all_drivers
        /\ Len(available_drivers) = Cardinality(all_drivers)

\* a full-length run on a full pool has returned, a check of it ended in
\* Error, and the whole pool is back in the queue
FailedCheckGaveSessionBack ==
    /\ Done /\ processed = MaxUrls
    /\ stats.errors >= 1 /\ stats.live >= 1
    /\ Cardinality(all_drivers) = MaxWorkers
    /\ Len(available_drivers) = MaxWorkers

\* C39: on a pool built with all its pool_size = max_workers sessions, the
\* workers holding or requesting a session never number more than pool_size,
\* a worker calling get_driver finds the queue non-empty, and no check ends
\* with the pool's timeout error.
FullPoolNeverExhausted ==
    (batch_processor # 0 /\ Cardinality(all_drivers) = pool_size) =>
        /\ Cardinality({w \in Workers : wpc[w] \in {"acquire", "navigate"}}) <= pool_size
        /\ \A w \in Workers : wpc[w] = "acquire" => available_drivers # <<>>
        /\ \A w \in Workers : werror[w] # PoolTimeout

\* on a full pool of MaxWorkers sessions a worker calls get_driver while all
\* the other workers hold a session
LastSessionStillFree ==
    /\ Cardinality(all_drivers) = pool_size /\ pool_size = MaxWorkers
    /\ Len(available_drivers) = 1
    /\ \E w \in Workers :
        /\ wpc[w] = "acquire"
        /\ \A v \in Workers \ {w} : wpc[v] = "navigate" /\ driver[v] # NoDriver

====
